---- MODULE Spec2Model ----
(***************************************************************************)
(* A model of the booz.gin parser-combinator engine: the ParserState       *)
(* transaction stack over a seekable input, the AttrType system, and the   *)
(* _parse methods of the combinators, executed one statement group at a    *)
(* time on an explicit call stack.                                         *)
(***************************************************************************)
EXTENDS Integers, Sequences, FiniteSets, TLC

\* Longest input text drawn in Init.
MaxLen == 3

\* Largest minimum / maximum drawn for Repeat(minimum, maximum).
MaxRep == 2

\* ------------------------------------------------------------------------
\* Attribute values.  A value is a tagged record: the UNUSED singleton,
\* Python's None, a str (sequence of one-character strings), a tuple of
\* values, or any other object.
\* ------------------------------------------------------------------------

UNUSED ==
  [t |-> "unused", v |-> <<>>]

None ==
  [t |-> "none", v |-> <<>>]

Str(s) ==
  [t |-> "str", v |-> s]

Tuple(vs) ==
  [t |-> "tuple", v |-> vs]

Obj(x) ==
  [t |-> "obj", v |-> <<x>>]

\* The input alphabet and its code points (sorted() compares by code point).
Alphabet ==
  {" ", "+", "1"}

Ord(c) ==
  CASE c = " " -> 32
    [] c = "+" -> 43
    [] c = "1" -> 49

Min(a, b) ==
  IF a < b THEN a ELSE b

\* ------------------------------------------------------------------------
\* AttrType
\* ------------------------------------------------------------------------

AttrType ==
  {"UNUSED", "OBJECT", "STRING", "TUPLE"}

\* Outcomes of evaluating attr_type that are raised errors, not types.
AttrErrors ==
  {"RecursionError", "NotImplementedError"}

compatible(type, value) ==
  IF type \in {"UNUSED", "OBJECT"} THEN TRUE
  ELSE IF value.t = "str" /\ type = "STRING" THEN TRUE
  ELSE IF value.t = "tuple" /\ type = "TUPLE" THEN TRUE
  ELSE FALSE

type_for(value) ==
  IF value.t = "unused" THEN "UNUSED"
  ELSE IF value.t = "str" THEN "STRING"
  ELSE IF value.t = "tuple" THEN "TUPLE"
  ELSE "OBJECT"

\* ------------------------------------------------------------------------
\* Parser nodes (the constructors of parser.py, rule.py, chars.py)
\* ------------------------------------------------------------------------

\* Python's None where a parser is expected (no skipper, no explicit type).
NoParser ==
  [k |-> "None"]

NoType ==
  "NoType"

\* Repeat's maximum=None.
NoMax ==
  -1

Char(chars) ==
  [k |-> "Char", any |-> FALSE, chars |-> chars]

AnyChar ==
  [k |-> "Char", any |-> TRUE, chars |-> {}]

PredicateChar(func) ==
  [k |-> "PredChar", func |-> func]

String(string) ==
  [k |-> "String", s |-> string]

SeqParser(parsers) ==
  [k |-> "Seq", ps |-> parsers]

Alt(parsers) ==
  [k |-> "Alt", ps |-> parsers]

SemanticAction(parser, func, attr_type) ==
  [k |-> "Action", p |-> parser, func |-> func,
   t |-> IF attr_type = NoType THEN "OBJECT" ELSE attr_type]

Repeat(parser, minimum, maximum) ==
  [k |-> "Repeat", p |-> parser, min |-> minimum, max |-> maximum]

Rule(name, expected_attr_type) ==
  [k |-> "Rule", name |-> name, expected |-> expected_attr_type]

\* An unbound Rule that behaves as a parser that never matches.
NeverMatches ==
  [k |-> "Char", chars |-> {}, any |-> FALSE]

\* A Rule that has not been bound.
Unbound ==
  [k |-> "Unbound"]

RuleNames ==
  {"expr"}

NoRules ==
  [r \in RuleNames |-> Unbound]

FirstError(ts) ==
  LET bad == {i \in 1..Len(ts) : ts[i] \in AttrErrors}
  IN  IF bad = {} THEN NoType
      ELSE ts[CHOOSE i \in bad : \A j \in bad : i <= j]

\* node.attr_type under the Rule bindings R; seen holds the untyped Rules
\* whose attr_type is being evaluated further up the Python stack (a Rule
\* met again recurses without end, which Python ends by RecursionError).
RECURSIVE AttrTypeOf(_, _, _)
AttrTypeOf(n, R, seen) ==
  CASE n.k \in {"Char", "PredChar", "String"} -> "STRING"
    [] n.k \in {"Eps", "Eoi"} -> "UNUSED"
    [] n.k \in {"Action", "Directive", "Symbols"} -> n.t
    [] n.k = "Seq" ->
         LET ts == [i \in 1..Len(n.ps) |-> AttrTypeOf(n.ps[i], R, seen)]
             all_types == SelectSeq(ts, LAMBDA t : t # "UNUSED")
         IN  IF FirstError(ts) # NoType THEN FirstError(ts)
             ELSE IF Len(all_types) = 0 THEN "UNUSED"
             ELSE IF Len(all_types) = 1 THEN all_types[1]
             ELSE "TUPLE"
    [] n.k = "Alt" ->
         LET all_types == [i \in 1..Len(n.ps) |-> AttrTypeOf(n.ps[i], R, seen)]
         IN  IF FirstError(all_types) # NoType THEN FirstError(all_types)
             ELSE IF Len(all_types) = 0 THEN "UNUSED"
             ELSE IF \A i \in 2..Len(all_types) : all_types[i] = all_types[1]
                  THEN all_types[1]
                  ELSE "OBJECT"
    [] n.k = "Repeat" ->
         LET ct == AttrTypeOf(n.p, R, seen)
         IN  IF ct \in AttrErrors THEN ct
             ELSE IF n.min = 0 /\ n.max = 1 THEN ct
             ELSE IF ct = "UNUSED" THEN "UNUSED" ELSE "TUPLE"
    [] n.k = "Rule" ->
         IF n.expected # NoType THEN n.expected
         ELSE IF R[n.name].k = "Unbound" THEN "NotImplementedError"
         ELSE IF n.name \in seen THEN "RecursionError"
         ELSE AttrTypeOf(R[n.name], R, seen \cup {n.name})

\* The attr_type values that util.calculated_property has stored on the
\* nodes of the tree: a set of <<node, attr_type>> pairs.
Cached(c, n) ==
  \E e \in c : e[1] = n

\* A lookup that returns a value stored on any node.
LookupAny(c, n) ==
  (CHOOSE e \in c : TRUE)[2]

Lookup(c, n) ==
  (CHOOSE e \in c : e[1] = n)[2]

\* Evaluating n.attr_type on a tree whose cached values are c: the value
\* (or the exception) and the cached values afterwards.  Seq, Alt and
\* Repeat return their cached value if they have one and store the value
\* they compute; an exception stores nothing on the nodes it passes through.
RECURSIVE Eval(_, _, _, _)
RECURSIVE EvalAll(_, _, _, _)
EvalAll(ps, R, seen, c) ==
  IF ps = <<>> THEN [ts |-> <<>>, c |-> c]
  ELSE LET h == Eval(Head(ps), R, seen, c)
       IN  IF h.t \in AttrErrors THEN [ts |-> <<h.t>>, c |-> h.c]
           ELSE LET r == EvalAll(Tail(ps), R, seen, h.c)
                IN  [ts |-> <<h.t>> \o r.ts, c |-> r.c]

Eval(n, R, seen, c) ==
  IF Cached(c, n) THEN [t |-> Lookup(c, n), c |-> c]
  ELSE
  CASE n.k = "Seq" ->
         LET a == EvalAll(n.ps, R, seen, c)
             all_types == SelectSeq(a.ts, LAMBDA t : t # "UNUSED")
             type == IF Len(all_types) = 0 THEN "UNUSED"
                     ELSE IF Len(all_types) = 1 THEN all_types[1]
                     ELSE "TUPLE"
         IN  IF FirstError(a.ts) # NoType
             THEN [t |-> FirstError(a.ts), c |-> a.c]
             ELSE [t |-> type, c |-> a.c \cup {<<n, type>>}]
    [] n.k = "Alt" ->
         LET a == EvalAll(n.ps, R, seen, c)
             type == IF Len(a.ts) = 0 THEN "UNUSED"
                     ELSE IF \A i \in 2..Len(a.ts) : a.ts[i] = a.ts[1]
                     THEN a.ts[1]
                     ELSE "OBJECT"
         IN  IF FirstError(a.ts) # NoType
             THEN [t |-> FirstError(a.ts), c |-> a.c]
             ELSE [t |-> type, c |-> a.c \cup {<<n, type>>}]
    [] n.k = "Repeat" ->
         LET a == Eval(n.p, R, seen, c)
             type == IF n.min = 0 /\ n.max = 1 THEN a.t
                     ELSE IF a.t = "UNUSED" THEN "UNUSED" ELSE "TUPLE"
         IN  IF a.t \in AttrErrors THEN a
             ELSE [t |-> type, c |-> a.c \cup {<<n, type>>}]
    [] n.k = "Rule" ->
         IF n.expected # NoType THEN [t |-> n.expected, c |-> c]
         ELSE IF R[n.name].k = "Unbound"
         THEN [t |-> "NotImplementedError", c |-> c]
         ELSE IF n.name \in seen THEN [t |-> "RecursionError", c |-> c]
         ELSE Eval(R[n.name], R, seen \cup {n.name}, c)
    [] OTHER -> [t |-> AttrTypeOf(n, R, seen), c |-> c]

\* A directive made by FuncDirective.__getitem__: the attr_type given to the
\* directive, else the wrapped parser's attr_type at construction time.
FuncDirectiveParser(parser, func, attr_type) ==
  [k |-> "Directive", p |-> parser, func |-> func,
   t |-> IF attr_type # NoType THEN attr_type
         ELSE AttrTypeOf(parser, NoRules, {})]

omit(parser) ==
  FuncDirectiveParser(parser, "omit", "UNUSED")

as_string(parser) ==
  FuncDirectiveParser(parser, "as_string", "STRING")

object_lexeme(parser) ==
  FuncDirectiveParser(parser, "object_lexeme", NoType)

\* A lexeme that leaves the skip policy in force inside.
lexemeSkipping(parser) ==
  as_string(parser)

lexeme(parser) ==
  as_string(object_lexeme(parser))

predicate(parser) ==
  FuncDirectiveParser(parser, "predicate", "UNUSED")

not_predicate(parser) ==
  FuncDirectiveParser(parser, "not_predicate", "UNUSED")

lit(string) ==
  omit(String(string))

\* A << that nests its operands instead of splicing them.
LShiftNested(self, other) ==
  [k |-> "Seq", ps |-> <<self, other>>]

\* Parser.__lshift__ and Seq.__lshift__ (a << b): Seq operands are spliced.
LShift(self, other) ==
  IF self.k = "Seq"
  THEN IF other.k = "Seq" THEN SeqParser(self.ps \o other.ps)
       ELSE SeqParser(self.ps \o <<other>>)
  ELSE IF other.k = "Seq" THEN SeqParser(<<self>> \o other.ps)
       ELSE SeqParser(<<self, other>>)

\* Parser.__or__ and Alt.__or__ (a | b).
Or(self, other) ==
  IF self.k = "Alt"
  THEN IF other.k = "Alt" THEN Alt(self.ps \o other.ps)
       ELSE Alt(self.ps \o <<other>>)
  ELSE IF other.k = "Alt" THEN Alt(<<self>> \o other.ps)
       ELSE Alt(<<self, other>>)

\* Parser.__pos__ (+a).
Pos(self) ==
  Repeat(self, 1, NoMax)

\* Parser.__neg__ and Repeat.__neg__ (-a).
Neg(self) ==
  IF self.k = "Repeat" /\ self.min = 1
  THEN Repeat(self.p, 0, self.max)
  ELSE Repeat(self, 0, 1)

\* Parser.__invert__ (~a).
Invert(self) ==
  predicate(self)

\* Python's str ordering: a < b.
StrLess(a, b) ==
  \E i \in 1..(Len(b)) :
    /\ \A j \in 1..(i - 1) : j <= Len(a) /\ a[j] = b[j]
    /\ \/ i = Len(a) + 1
       \/ i <= Len(a) /\ Ord(a[i]) < Ord(b[i])

\* The items with the greatest key first.
RECURSIVE SortedDescending(_)
SortedDescending(items) ==
  IF items = {} THEN <<>>
  ELSE LET last == CHOOSE x \in items :
                     \A y \in items \ {x} : StrLess(x[1], y[1])
       IN  SortedDescending(items \ {last}) \o <<last>>

\* sorted(symbols.items()) of a dict given as a set of <<key, value>> pairs.
RECURSIVE SortedItems(_)
SortedItems(items) ==
  IF items = {} THEN <<>>
  ELSE LET first == CHOOSE x \in items :
                      \A y \in items \ {x} : StrLess(x[1], y[1])
       IN  <<first>> \o SortedItems(items \ {first})

\* A Symbols that declares STRING whatever its values are.
SymbolsTypeString(items) ==
  "STRING"

\* The attr_type Symbols.__init__ infers from the dict's values.
SymbolsType(items) ==
  LET types == {type_for(x[2]) : x \in items}
  IN  IF Cardinality(types) = 1 THEN CHOOSE t \in types : TRUE ELSE "OBJECT"

Symbols(items, attr_type) ==
  [k |-> "Symbols", syms |-> SortedItems(items),
   t |-> IF attr_type # NoType THEN attr_type ELSE SymbolsType(items)]

\* ------------------------------------------------------------------------
\* State
\* ------------------------------------------------------------------------

VARIABLES
  rules,     \* Rule name -> the parser it is bound to (or Unbound)
  cache,     \* the attr_type values stored on the nodes (calculated_property)
  job,       \* the parsers the caller runs, one top-level parse call each
  text,      \* the input text, a sequence of characters
  skiparg,   \* the skipper argument of the top-level calls
  start0,    \* the stream position at which each top-level call is made
  given,     \* the ParserState passed as parser_input, if one is passed
  other,     \* a second parse of the same tree, suspended: its own state
  results,   \* what the finished top-level calls returned
  pos,       \* ParserState.__input: the stream position (tell())
  skipper,   \* ParserState.__skipper
  tx,        \* ParserState.__tx and the transactions saved by open_transaction
  ctl,       \* the Python call stack: parse and _parse activations
  ret,       \* the (status, value) returned by the parse call that just ended
  body,      \* bookkeeping of the _parse call that just ended
  err        \* the exception being propagated, if any

vars ==
  <<rules, cache, job, text, skiparg, start0, given, other, results, pos,
    skipper, tx, ctl, ret, body, err>>

config ==
  <<job, text, skiparg, start0, given, other>>

NoErr ==
  "NoErr"

NoRet ==
  [set |-> FALSE, ok |-> FALSE, val |-> None, node |-> NoParser, start |-> 0,
   end |-> 0, at |-> 0, eaten |-> 0, skipped |-> 0, hist |-> <<>>]

NoBody ==
  [eaten |-> 0, hist |-> <<>>]

\* An activation of parse ("parse") or of a node's _parse ("_parse").
\* i and vals are the loop index / count and the values list of the method,
\* sk the skipper it saved; start, eaten and hist record where it started,
\* the characters its successful sub-matches consumed and what its children
\* returned.
Frame(op, node, pc, i) ==
  [op |-> op, node |-> node, pc |-> pc, i |-> i, vals |-> <<>>,
   sk |-> NoParser, start |-> 0, eaten |-> 0, hist |-> <<>>]

\* ------------------------------------------------------------------------
\* ParserState
\* ------------------------------------------------------------------------

\* A transaction that records the start of the stream, not the position at
\* which it was opened.
TxAtOrigin(p) ==
  [pos |-> 0, commit |-> FALSE, success |-> FALSE, value |-> UNUSED,
   own |-> FALSE]

\* ParserState.__Tx(pos)
Tx(p) ==
  [pos |-> p, commit |-> FALSE, success |-> FALSE, value |-> UNUSED,
   own |-> FALSE]

\* A value setter that also marks the transaction committed.
SetValueCommits(t, value) ==
  [t EXCEPT !.value = value, !.own = TRUE, !.success = TRUE,
             !.commit = TRUE]

\* the value setter
SetValue(t, value) ==
  [t EXCEPT !.value = value, !.own = TRUE, !.success = TRUE]

Commit(t, value) ==
  [SetValue(t, value) EXCEPT !.commit = TRUE]

Succeed(t, value) ==
  [SetValue(t, value) EXCEPT !.commit = FALSE]

\* A rollback() that changes nothing.
RollbackNothing(t) ==
  t

\* A rollback() that forgets to delete the value.
RollbackKeepsValue(t) ==
  [t EXCEPT !.commit = FALSE, !.success = FALSE]

\* rollback(), for a transaction whose value was set (del finds the attribute)
Rollback(t) ==
  [t EXCEPT !.commit = FALSE, !.success = FALSE, !.value = UNUSED,
            !.own = FALSE]

\* An uncommit() that leaves the commit flag set.
UncommitNothing(t) ==
  t

Uncommit(t) ==
  [t EXCEPT !.commit = FALSE]

\* read(n) at position p: the characters read (short at end of input)
Read(p, n) ==
  SubSeq(text, p + 1, Min(p + n, Len(text)))

\* the skipper setter
SkipperSetter(value) ==
  IF value.k = "pystr"
  THEN Char({value.s[i] : i \in 1..Len(value.s)})
  ELSE value

\* A close that never seeks back.
KeepPos(t, p) ==
  p

\* open_transaction on leaving the with block: where the stream is left
RestorePos(t, p) ==
  IF ~t.commit THEN t.pos ELSE p

Top ==
  tx[Len(tx)]

F ==
  ctl[Len(ctl)]

\* A write that lands in the outermost transaction instead of the current one.
SetOutermost(t) ==
  [tx EXCEPT ![1] = t]

SetTop(t) ==
  [tx EXCEPT ![Len(tx)] = t]

PopTx ==
  SubSeq(tx, 1, Len(tx) - 1)

Pop ==
  SubSeq(ctl, 1, Len(ctl) - 1)

\* the current activation f continues as f2
Cont(f2) ==
  [ctl EXCEPT ![Len(ctl)] = f2]

Running ==
  err = NoErr /\ ctl # <<>>

At(op, kind, pc) ==
  /\ Running
  /\ F.op = op
  /\ F.node.k = kind
  /\ F.pc = pc

\* ------------------------------------------------------------------------
\* Parser.parse
\* ------------------------------------------------------------------------

\* parser_input is a str or a stream, not a ParserState.
NoState ==
  [k |-> "stream"]

\* A ParserState constructed by the caller, with its skipper.
ParserState(state_skipper) ==
  [k |-> "ParserState", skipper |-> state_skipper]

\* A usage check that only looks at the type of the skipper.
UsageErrorOfType(parser_input, value) ==
  parser_input.k # "ParserState" /\ value.k = "pyobj"

\* Whether parse(parser_input, skipper=value) raises TypeError at once: a
\* skipper beside a ParserState, or a skipper the setter does not accept.
UsageError(parser_input, value) ==
  IF parser_input.k = "ParserState" THEN value # NoParser
  ELSE value.k = "pyobj"

\* A top-level call C.parse(parser_input, skipper): the arguments are
\* checked and the ParserState is built unless one was passed.
Call ==
  /\ ctl = <<>> /\ err = NoErr /\ ~ret.set
  /\ Len(results) < Len(job)
  /\ job[Len(results) + 1].k # "Bind"
  /\ IF UsageError(given, skiparg)
     THEN /\ results' = Append(results,
                               [out |-> "raise", val |-> None, pos |-> pos,
                                err |-> "TypeError"])
          /\ UNCHANGED <<pos, skipper, tx, ctl>>
     ELSE /\ pos' = start0
          /\ skipper' = IF given.k = "ParserState" THEN given.skipper
                         ELSE SkipperSetter(skiparg)
          /\ tx' = <<>>
          /\ ctl' = <<Frame("parse", job[Len(results) + 1], "open", 0)>>
          /\ results' = results
  /\ UNCHANGED <<rules, cache, config, ret, body, err>>

\* A statement rule %= value (rule.parser = value) of the grammar's author.
Bind(rule, value) ==
  [k |-> "Bind", rule |-> rule, value |-> value]

\* as_parser(value): a str becomes lit(value), a Parser is itself, anything
\* else raises TypeError.
as_parser(value) ==
  IF value.k = "pystr" THEN lit(value.s)
  ELSE IF value.k = "pyobj" THEN [k |-> "TypeError"]
  ELSE value

\* The Rule.parser setter: the exception it raises, or the parser it stores.
SetParser(rule, value) ==
  LET type == IF rule.expected = NoType THEN NoType
              ELSE IF value.k \in {"pystr", "pyobj"} THEN "AttributeError"
              ELSE Eval(value, rules, {}, cache).t
  IN  IF type \in AttrErrors \cup {"AttributeError"}
      THEN [err |-> type, parser |-> NoParser]
      ELSE IF rule.expected # NoType /\ rule.expected # type
      THEN [err |-> "ValueError", parser |-> NoParser]
      ELSE IF as_parser(value).k = "TypeError"
      THEN [err |-> "TypeError", parser |-> NoParser]
      ELSE [err |-> NoErr, parser |-> as_parser(value)]

\* rule %= value, run between the parse calls.
BindRule ==
  /\ ctl = <<>> /\ err = NoErr /\ ~ret.set
  /\ Len(results) < Len(job)
  /\ job[Len(results) + 1].k = "Bind"
  /\ LET cmd == job[Len(results) + 1]
         set == SetParser(cmd.rule, cmd.value)
     IN  /\ IF set.err # NoErr
            THEN /\ rules' = rules
                 /\ results' = Append(results,
                                      [out |-> "raise", val |-> None,
                                       pos |-> pos, err |-> set.err])
            ELSE /\ rules' = [rules EXCEPT ![cmd.rule.name] = set.parser]
                 /\ results' = Append(results,
                                      [out |-> "bound", val |-> None,
                                       pos |-> pos, err |-> NoErr])
         /\ cache' = IF cmd.rule.expected = NoType
                        \/ cmd.value.k \in {"pystr", "pyobj"}
                     THEN cache
                     ELSE Eval(cmd.value, rules, {}, cache).c
  /\ UNCHANGED <<config, pos, skipper, tx, ctl, ret, body, err>>

\* with parser_input.open_transaction() as state: if state.skipper: ...
ParseOpen ==
  /\ Running /\ F.op = "parse" /\ F.pc = "open"
  /\ tx' = Append(tx, Tx(pos))
  /\ IF skipper.k # "None"
     THEN /\ skipper' = NoParser
          /\ ctl' = Cont([F EXCEPT !.pc = "skip", !.sk = skipper, !.start = pos])
     ELSE /\ skipper' = skipper
          /\ ctl' = Cont([F EXCEPT !.pc = "body", !.start = pos])
  /\ UNCHANGED <<rules, cache, config, results, pos, ret, body, err>>

\* while status: with state.open_transaction(): skipper.parse(state)
SkipIter ==
  /\ Running /\ F.op = "parse" /\ F.pc = "skip"
  /\ tx' = Append(tx, Tx(pos))
  /\ ctl' = Append(Cont([F EXCEPT !.pc = "skipret"]),
                   Frame("parse", F.sk, "open", 0))
  /\ UNCHANGED <<rules, cache, config, results, pos, skipper, ret, body, err>>

\* A skip loop that never commits an attempt.
SkipNeverCommits(status) ==
  FALSE

\* Whether the skip loop commits an attempt that returned status.
SkipCommits(status) ==
  status

\* status, _ = skipper.parse(state); if status: state.commit()
SkipRet ==
  /\ Running /\ F.op = "parse" /\ F.pc = "skipret" /\ ret.set
  /\ tx' = IF SkipCommits(ret.ok) THEN SetTop(Commit(Top, UNUSED)) ELSE tx
  /\ ctl' = Cont([F EXCEPT !.pc = "skipclose",
                           !.eaten = F.eaten + ret.eaten])
  /\ ret' = NoRet
  /\ UNCHANGED <<rules, cache, config, results, pos, skipper, body, err>>

\* the end of the with block; while status: ... finally: restore skipper
SkipClose ==
  /\ Running /\ F.op = "parse" /\ F.pc = "skipclose"
  /\ pos' = RestorePos(Top, pos)
  /\ tx' = PopTx
  /\ IF Top.success
     THEN /\ ctl' = Cont([F EXCEPT !.pc = "skip"])
          /\ skipper' = skipper
     ELSE /\ ctl' = Cont([F EXCEPT !.pc = "body"])
          /\ skipper' = F.sk
  /\ UNCHANGED <<rules, cache, config, results, ret, body, err>>

\* self._parse(state)
ParseBody ==
  /\ Running /\ F.op = "parse" /\ F.pc = "body"
  /\ ctl' = Append(Cont([F EXCEPT !.pc = "ret"]),
                   Frame("_parse", F.node, "start", 0))
  /\ UNCHANGED <<rules, cache, config, results, pos, skipper, tx, ret, body, err>>

\* Whether a node's parse can only ever succeed without committing.
RECURSIVE LookaheadOnly(_, _)
LookaheadOnly(n, seen) ==
  CASE n.k = "Directive" ->
         IF n.func \in {"predicate", "not_predicate"} THEN TRUE
         ELSE LookaheadOnly(n.p, seen)
    [] n.k = "Action" -> LookaheadOnly(n.p, seen)
    [] n.k \in {"Eps", "Eoi"} -> TRUE
    [] n.k = "Rule" ->
         IF rules[n.name].k = "Unbound" \/ n.name \in seen THEN FALSE
         ELSE LookaheadOnly(rules[n.name], seen \cup {n.name})
    [] OTHER -> FALSE

\* A parse that returns state.value also on failure.
ParseValueRaw(t) ==
  t.value

\* state.value if state.successful else None
ParseValue(t) ==
  IF t.success THEN t.value ELSE None

\* return state.successful, state.value if state.successful else None
\* and the end of the with block.
ParseRet ==
  /\ Running /\ F.op = "parse" /\ F.pc = "ret"
  /\ ret' = [set |-> TRUE, ok |-> Top.success,
             val |-> ParseValue(Top),
             node |-> F.node, start |-> F.start,
             end |-> RestorePos(Top, pos), at |-> pos,
             eaten |-> IF ~Top.success \/ LookaheadOnly(F.node, {}) THEN 0
                       ELSE F.eaten + body.eaten,
             skipped |-> F.eaten,
             hist |-> body.hist]
  /\ pos' = RestorePos(Top, pos)
  /\ tx' = PopTx
  /\ ctl' = Pop
  /\ UNCHANGED <<rules, cache, config, results, skipper, body, err>>

\* The top-level call returns to the caller.
Return ==
  /\ ctl = <<>> /\ err = NoErr /\ ret.set
  /\ results' = Append(results,
                       [out |-> IF ret.ok THEN "success" ELSE "failure",
                        val |-> ret.val, pos |-> pos, err |-> NoErr])
  /\ ret' = NoRet
  /\ UNCHANGED <<rules, cache, config, pos, skipper, tx, ctl, body, err>>

\* ------------------------------------------------------------------------
\* Char, PredicateChar, String
\* ------------------------------------------------------------------------

CharParse ==
  /\ At("_parse", "Char", "start")
  /\ LET c == Read(pos, 1)
         hit == c # <<>> /\ (F.node.any \/ c[1] \in F.node.chars)
     IN  /\ pos' = pos + Len(c)
         /\ tx' = IF hit THEN SetTop(Commit(Top, Str(c))) ELSE tx
         /\ body' = [eaten |-> IF hit THEN 1 ELSE 0, hist |-> <<>>]
  /\ ctl' = Pop
  /\ UNCHANGED <<rules, cache, config, results, skipper, ret, err>>

\* aux.eoi and aux.eps, the singletons.
eoi ==
  [k |-> "Eoi"]

eps ==
  [k |-> "Eps"]

\* eoi._parse: if state.read(1) == '': state.succeed()
EoiParse ==
  /\ At("_parse", "Eoi", "start")
  /\ LET c == Read(pos, 1)
     IN  /\ pos' = pos + Len(c)
         /\ tx' = IF c = <<>> THEN SetTop(Succeed(Top, UNUSED)) ELSE tx
  /\ body' = NoBody
  /\ ctl' = Pop
  /\ UNCHANGED <<rules, cache, config, results, skipper, ret, err>>

\* eps._parse: state.succeed()
EpsParse ==
  /\ At("_parse", "Eps", "start")
  /\ tx' = SetTop(Succeed(Top, UNUSED))
  /\ body' = NoBody
  /\ ctl' = Pop
  /\ UNCHANGED <<rules, cache, config, results, pos, skipper, ret, err>>

\* str.isdigit, str.isspace, str.isprintable, ... on what read(1) returned
PredFunc(func, c) ==
  CASE func = "isdigit" -> c = <<"1">>
    [] func = "isspace" -> c = <<" ">>
    [] func = "isprintable" -> TRUE
    [] func = "isalpha" -> c # <<>> /\ c[1] \in {"a", "g", "t"}

PredicateCharParse ==
  /\ At("_parse", "PredChar", "start")
  /\ LET c == Read(pos, 1)
         hit == PredFunc(F.node.func, c)
     IN  /\ pos' = pos + Len(c)
         /\ tx' = IF hit THEN SetTop(Commit(Top, Str(c))) ELSE tx
         /\ body' = [eaten |-> IF hit THEN Len(c) ELSE 0, hist |-> <<>>]
  /\ ctl' = Pop
  /\ UNCHANGED <<rules, cache, config, results, skipper, ret, err>>

StringParse ==
  /\ At("_parse", "String", "start")
  /\ LET value == F.node.s
         string == Read(pos, Len(value))
         hit == string = value
     IN  /\ pos' = pos + Len(string)
         /\ tx' = IF hit THEN SetTop(Commit(Top, Str(string))) ELSE tx
         /\ body' = [eaten |-> IF hit THEN Len(string) ELSE 0, hist |-> <<>>]
  /\ ctl' = Pop
  /\ UNCHANGED <<rules, cache, config, results, skipper, ret, err>>

\* ------------------------------------------------------------------------
\* Seq, Alt, Symbols
\* ------------------------------------------------------------------------

\* What a child's parse call returned, as the caller's history keeps it.
Entry(i) ==
  [i |-> i, ok |-> ret.ok, val |-> ret.val, start |-> ret.start,
   end |-> ret.end, eaten |-> ret.eaten]

\* for parser in self.parsers: result, value = parser.parse(state)
SeqCall ==
  /\ At("_parse", "Seq", "start")
  /\ F.i + 1 <= Len(F.node.ps)
  /\ ctl' = Append(Cont([F EXCEPT !.pc = "wait", !.i = F.i + 1]),
                   Frame("parse", F.node.ps[F.i + 1], "open", 0))
  /\ UNCHANGED <<rules, cache, config, results, pos, skipper, tx, ret, body, err>>

\* A Seq that goes on after a child failed.
SeqNeverAborts(result) ==
  FALSE

\* Whether Seq._parse returns at once after a child returned result.
SeqAbort(result) ==
  ~result

\* if not result: return / elif parser.attr_type != UNUSED: values.append
SeqRet ==
  /\ At("_parse", "Seq", "wait") /\ ret.set
  /\ LET child == IF ret.ok THEN Eval(F.node.ps[F.i], rules, {}, cache)
                  ELSE [t |-> NoType, c |-> cache]
         type == child.t
         h == Append(F.hist, Entry(F.i))
     IN  /\ cache' = child.c
         /\ IF SeqAbort(ret.ok)
            THEN /\ ctl' = Pop
                 /\ body' = [eaten |-> 0, hist |-> h]
                 /\ err' = err
            ELSE IF type \in AttrErrors
            THEN /\ err' = type
                 /\ ctl' = Cont([F EXCEPT !.hist = h])
                 /\ body' = body
            ELSE /\ ctl' = Cont([F EXCEPT
                      !.pc = "start", !.hist = h,
                      !.eaten = F.eaten + ret.eaten,
                      !.vals = IF type # "UNUSED"
                               THEN Append(F.vals, ret.val)
                               ELSE F.vals])
                 /\ body' = body
                 /\ err' = err
  /\ ret' = NoRet
  /\ UNCHANGED <<rules, config, results, pos, skipper, tx>>

\* A Seq that always commits a tuple.
SeqTuple(values) ==
  Tuple(values)

\* The value a Seq commits for the collected values.
SeqValue(values) ==
  IF Len(values) = 0 THEN UNUSED
  ELSE IF Len(values) = 1 THEN values[1]
  ELSE Tuple(values)

SeqCommit ==
  /\ At("_parse", "Seq", "start")
  /\ F.i + 1 > Len(F.node.ps)
  /\ tx' = SetTop(Commit(Top, SeqValue(F.vals)))
  /\ body' = [eaten |-> F.eaten, hist |-> F.hist]
  /\ ctl' = Pop
  /\ UNCHANGED <<rules, cache, config, results, pos, skipper, ret, err>>

\* for parser in self.parsers: result, value = parser.parse(state)
AltCall ==
  /\ At("_parse", "Alt", "start")
  /\ F.i + 1 <= Len(F.node.ps)
  /\ ctl' = Append(Cont([F EXCEPT !.pc = "wait", !.i = F.i + 1]),
                   Frame("parse", F.node.ps[F.i + 1], "open", 0))
  /\ UNCHANGED <<rules, cache, config, results, pos, skipper, tx, ret, body, err>>

\* An Alt that tries every child.
AltNeverBreaks(result) ==
  FALSE

\* Whether Alt._parse leaves its loop after a child returned result.
AltBreak(result) ==
  result

\* if result: state.commit(value); break
AltRet ==
  /\ At("_parse", "Alt", "wait") /\ ret.set
  /\ LET h == Append(F.hist, Entry(F.i))
     IN  /\ tx' = IF ret.ok THEN SetTop(Commit(Top, ret.val)) ELSE tx
         /\ IF AltBreak(ret.ok)
            THEN /\ ctl' = Pop
                 /\ body' = [eaten |-> ret.eaten, hist |-> h]
            ELSE /\ ctl' = Cont([F EXCEPT !.pc = "start", !.hist = h,
                                          !.eaten = ret.eaten])
                 /\ body' = body
  /\ ret' = NoRet
  /\ UNCHANGED <<rules, cache, config, results, pos, skipper, err>>

\* the loop of Alt._parse ends without a break
AltEnd ==
  /\ At("_parse", "Alt", "start")
  /\ F.i + 1 > Len(F.node.ps)
  /\ body' = [eaten |-> F.eaten, hist |-> F.hist]
  /\ ctl' = Pop
  /\ UNCHANGED <<rules, cache, config, results, pos, skipper, tx, ret, err>>

\* for parser, value in self.__symbols: status, _ = parser.parse(state)
SymbolsCall ==
  /\ At("_parse", "Symbols", "start")
  /\ F.i + 1 <= Len(F.node.syms)
  /\ ctl' = Append(Cont([F EXCEPT !.pc = "wait", !.i = F.i + 1]),
                   Frame("parse", String(F.node.syms[F.i + 1][1]), "open", 0))
  /\ UNCHANGED <<rules, cache, config, results, pos, skipper, tx, ret, body, err>>

\* if status: state.commit(value); break
SymbolsRet ==
  /\ At("_parse", "Symbols", "wait") /\ ret.set
  /\ LET h == Append(F.hist, Entry(F.i))
     IN  IF ret.ok
         THEN /\ tx' = SetTop(Commit(Top, F.node.syms[F.i][2]))
              /\ ctl' = Pop
              /\ body' = [eaten |-> ret.eaten, hist |-> h]
         ELSE /\ tx' = tx
              /\ ctl' = Cont([F EXCEPT !.pc = "start", !.hist = h])
              /\ body' = body
  /\ ret' = NoRet
  /\ UNCHANGED <<rules, cache, config, results, pos, skipper, err>>

SymbolsEnd ==
  /\ At("_parse", "Symbols", "start")
  /\ F.i + 1 > Len(F.node.syms)
  /\ body' = [eaten |-> 0, hist |-> F.hist]
  /\ ctl' = Pop
  /\ UNCHANGED <<rules, cache, config, results, pos, skipper, tx, ret, err>>

\* ------------------------------------------------------------------------
\* SemanticAction
\* ------------------------------------------------------------------------

\* The callables attached as semantic actions, by name:
\*   pack  = lambda *args: args      count = lambda *args: len(args)
\*   first = lambda x: x             fail  = lambda *args: 1 // 0
Funcs ==
  {"pack", "count", "first", "fail"}

\* The callables of the calculator example: add_action = lambda _:
\* operator.add and the like, apply_action = lambda v: v[1](v[0], v[2]), and
\* the type int, for which inspect.signature finds no signature ("int") or,
\* where the interpreter provides one, finds it ("int_sig").
CalcFuncs ==
  {"add_action", "sub_action", "mul_action", "div_action", "apply_action",
   "int", "int_sig"}

\* operator.add, operator.sub, operator.mul, operator.floordiv
Builtin(name) ==
  [t |-> "builtin", v |-> <<name>>]

\* int(c) of a decimal digit
Digit(c) ==
  CASE c = "0" -> 0 [] c = "1" -> 1 [] c = "2" -> 2 [] c = "3" -> 3
    [] c = "4" -> 4 [] c = "5" -> 5 [] c = "6" -> 6 [] c = "7" -> 7
    [] c = "8" -> 8 [] c = "9" -> 9

\* int(s) of a run of decimal digits
RECURSIVE IntOf(_)
IntOf(s) ==
  IF s = <<>> THEN 0
  ELSE 10 * IntOf(SubSeq(s, 1, Len(s) - 1)) + Digit(s[Len(s)])

\* op(a, b) for the four operators
Operate(op, a, b) ==
  CASE op = "add" -> a + b
    [] op = "sub" -> a - b
    [] op = "mul" -> a * b
    [] op = "floordiv" -> a \div b

\* Whether inspect.signature(func).bind(*params) succeeds.
Binds(func, params) ==
  IF func \in {"first", "int_sig"} \cup (CalcFuncs \ {"int"})
  THEN Len(params) = 1
  ELSE TRUE

Apply(func, params) ==
  CASE func = "pack" -> Tuple(params)
    [] func = "count" -> Obj(Len(params))
    [] func = "first" -> params[1]
    [] func = "add_action" -> Builtin("add")
    [] func = "sub_action" -> Builtin("sub")
    [] func = "mul_action" -> Builtin("mul")
    [] func = "div_action" -> Builtin("floordiv")
    [] func = "apply_action" ->
         LET v == params[1].v
         IN  Obj(Operate(v[2].v[1], v[1].v[1], v[3].v[1]))
    [] func = "int_sig" -> Obj(IntOf(params[1].v))

\* The exception raised by inspect.signature(func), by sig.bind(*params) or
\* by func(*binding.args).
FuncError(func, params) ==
  IF func = "int" THEN "ValueError"
  ELSE IF ~Binds(func, params) THEN "TypeError"
  ELSE IF func = "fail" THEN "ZeroDivisionError"
  ELSE NoErr

\* super(SemanticAction, self)._parse(state)
ActionCall ==
  /\ At("_parse", "Action", "start")
  /\ ctl' = Append(Cont([F EXCEPT !.pc = "wait"]),
                   Frame("_parse", F.node.p, "start", 0))
  /\ UNCHANGED <<rules, cache, config, results, pos, skipper, tx, ret, body, err>>

\* Parameters that are always the child's value alone.
ParamsSingle(attr_type, value) ==
  <<value>>

\* The positional parameters a SemanticAction passes to its function.
Params(attr_type, value) ==
  IF attr_type = "UNUSED" THEN <<>>
  ELSE IF value.t = "tuple" THEN value.v
  ELSE <<value>>

\* if state.successful: ... state.value = func(*binding.args)
ActionRet ==
  /\ At("_parse", "Action", "wait")
  /\ LET child == IF Top.success THEN Eval(F.node.p, rules, {}, cache)
                  ELSE [t |-> NoType, c |-> cache]
         type == child.t
         params == Params(type, Top.value)
     IN  /\ cache' = child.c
         /\ IF ~Top.success
            THEN /\ tx' = tx /\ err' = err /\ ctl' = Pop
            ELSE IF type \in AttrErrors
            THEN /\ tx' = tx /\ err' = type /\ ctl' = ctl
            ELSE IF FuncError(F.node.func, params) # NoErr
            THEN /\ tx' = tx /\ err' = FuncError(F.node.func, params)
                 /\ ctl' = ctl
            ELSE /\ tx' = SetTop(SetValue(Top, Apply(F.node.func, params)))
                 /\ err' = err
                 /\ ctl' = Pop
  /\ UNCHANGED <<rules, config, results, pos, skipper, ret, body>>

\* ------------------------------------------------------------------------
\* Directives
\* ------------------------------------------------------------------------

\* str(n) of a natural number
RECURSIVE StrOfNat(_)
StrOfNat(n) ==
  LET digit == <<"0", "1", "2", "3", "4", "5", "6", "7", "8", "9">>
  IN  IF n < 10 THEN <<digit[n + 1]>>
      ELSE StrOfNat(n \div 10) \o <<digit[(n % 10) + 1]>>

RECURSIVE Concat(_)
Concat(strs) ==
  IF strs = <<>> THEN <<>> ELSE Head(strs) \o Concat(Tail(strs))

\* _as_string(value), as a sequence of characters
RECURSIVE AsString(_)
AsString(value) ==
  CASE value.t = "unused" -> <<>>
    [] value.t = "tuple" ->
         Concat([i \in 1..Len(value.v) |-> AsString(value.v[i])])
    [] value.t = "str" -> value.v
    [] value.t = "none" -> <<"N", "o", "n", "e">>
    [] value.t = "obj" -> StrOfNat(value.v[1])

\* An omit that marks a value it finds already omitted.
OmitTwice(t) ==
  SetValue(t, IF t.value = UNUSED THEN Str(<<>>) ELSE UNUSED)

\* def omit(state): state.value = UNUSED
Omit(t) ==
  SetValue(t, UNUSED)

\* A predicate that leaves the child's value in place.
PostFuncKeepsValue(func, t) ==
  CASE func = "omit" -> Omit(t)
    [] func = "as_string" -> SetValue(t, Str(AsString(t.value)))
    [] func = "predicate" -> Uncommit(t)

\* What a post_directive's function does to a successful transaction.
PostFunc(func, t) ==
  CASE func = "omit" -> Omit(t)
    [] func = "as_string" -> SetValue(t, Str(AsString(t.value)))
    [] func = "predicate" -> Uncommit(SetValue(t, UNUSED))

\* A context manager that does nothing after its yield unless the
\* transaction is successful.
DirectivePostIfSuccessful(func, t) ==
  IF ~t.success THEN t
  ELSE IF func \in {"omit", "as_string", "predicate"} THEN PostFunc(func, t)
  ELSE IF func = "not_predicate" THEN Rollback(t)
  ELSE t

\* What the directive's context manager does after its yield.
DirectivePost(func, t) ==
  IF func \in {"omit", "as_string", "predicate"}
  THEN IF t.success THEN PostFunc(func, t) ELSE t
  ELSE IF func = "not_predicate"
  THEN IF t.success THEN Rollback(t) ELSE Succeed(t, UNUSED)
  ELSE t

\* with self._direct(state): the part before the yield, then the child
DirectiveEnter ==
  /\ At("_parse", "Directive", "start")
  /\ skipper' = IF F.node.func = "object_lexeme" THEN NoParser ELSE skipper
  /\ ctl' = Append(Cont([F EXCEPT !.pc = "wait", !.start = pos,
                                  !.sk = IF F.node.func = "object_lexeme"
                                         THEN skipper ELSE F.sk]),
                   Frame("_parse", F.node.p, "start", 0))
  /\ UNCHANGED <<rules, cache, config, results, pos, tx, ret, body, err>>

\* the part of the context manager after the yield
DirectiveExit ==
  /\ At("_parse", "Directive", "wait")
  /\ tx' = SetTop(DirectivePost(F.node.func, Top))
  /\ skipper' = IF F.node.func = "object_lexeme" THEN F.sk ELSE skipper
  /\ body' = IF F.node.func \in {"predicate", "not_predicate"}
             THEN [eaten |-> 0,
                   hist |-> <<[i |-> 1, ok |-> Top.success,
                               val |-> Top.value, start |-> F.start,
                               end |-> pos, eaten |-> body.eaten]>>]
             ELSE body
  /\ ctl' = Pop
  /\ UNCHANGED <<rules, cache, config, results, pos, ret, err>>

\* ------------------------------------------------------------------------
\* Repeat
\* ------------------------------------------------------------------------

\* A loop that gives up after MaxRep iterations whatever its maximum.
RepeatAgainGuarded(n, count) ==
  count < MaxRep /\ (n.max = NoMax \/ count < n.max)

\* while self.__maximum is None or count < self.__maximum
RepeatAgain(n, count) ==
  n.max = NoMax \/ count < n.max

\* with state.open_transaction() as next_state: child._parse(next_state)
RepeatIter ==
  /\ At("_parse", "Repeat", "start")
  /\ RepeatAgain(F.node, F.i)
  /\ tx' = Append(tx, Tx(pos))
  /\ ctl' = Append(Cont([F EXCEPT !.pc = "wait"]),
                   Frame("_parse", F.node.p, "start", 0))
  /\ UNCHANGED <<rules, cache, config, results, pos, skipper, ret, body, err>>

\* The iterations of one loop whose count, values and history are recorded;
\* a loop that runs longer goes on with its record unchanged.  No loop over
\* a child that consumes input gets this far on a text of MaxLen characters.
MaxIter ==
  MaxLen + 1

\* if next_state.successful: values.append(...) else: break; count += 1
RepeatRet ==
  /\ At("_parse", "Repeat", "wait")
  /\ LET full == F.i >= MaxIter
         h == IF full THEN F.hist
              ELSE Append(F.hist,
                     [i |-> F.i + 1, ok |-> Top.success, val |-> Top.value,
                      start |-> Top.pos, end |-> RestorePos(Top, pos),
                      eaten |-> body.eaten])
     IN  IF Top.success
         THEN ctl' = Cont([F EXCEPT !.pc = "start",
                                    !.i = IF full THEN F.i ELSE F.i + 1,
                                    !.vals = IF full THEN F.vals
                                             ELSE Append(F.vals, Top.value),
                                    !.eaten = F.eaten + body.eaten,
                                    !.hist = h])
         ELSE ctl' = Cont([F EXCEPT !.pc = "done", !.hist = h])
  /\ pos' = RestorePos(Top, pos)
  /\ tx' = PopTx
  /\ UNCHANGED <<rules, cache, config, results, skipper, ret, body, err>>

RepeatLoopOver ==
  IF F.pc = "done" THEN TRUE
  ELSE F.pc = "start" /\ ~RepeatAgain(F.node, F.i)

\* A Repeat that ignores its minimum.
RepeatAlwaysCommits(n, count) ==
  TRUE

\* Whether Repeat._parse commits after count iterations succeeded.
RepeatCommits(n, count) ==
  IF n.min = 0 /\ n.max = 1 THEN TRUE ELSE count >= n.min

\* A Repeat without the special case of the optional.
RepeatTuple(n, type, values) ==
  IF type = "UNUSED" THEN UNUSED ELSE Tuple(values)

\* The value Repeat._parse commits: values[0] if values else UNUSED for the
\* optional, else UNUSED if self.attr_type is UNUSED else tuple(values).
RepeatValue(n, type, values) ==
  IF n.min = 0 /\ n.max = 1
  THEN IF values # <<>> THEN values[1] ELSE UNUSED
  ELSE IF type = "UNUSED" THEN UNUSED ELSE Tuple(values)

\* if self.is_optional: ... elif count >= self.__minimum: ...
RepeatEnd ==
  /\ Running /\ F.op = "_parse" /\ F.node.k = "Repeat"
  /\ RepeatLoopOver
  /\ LET optional == F.node.min = 0 /\ F.node.max = 1
         commits == RepeatCommits(F.node, F.i)
         self == IF ~optional /\ commits
                 THEN Eval(F.node, rules, {}, cache)
                 ELSE [t |-> NoType, c |-> cache]
         type == self.t
     IN  /\ cache' = self.c
         /\ IF type \in AttrErrors
            THEN /\ err' = type /\ tx' = tx /\ ctl' = ctl /\ body' = body
            ELSE /\ err' = err
                 /\ ctl' = Pop
                 /\ body' = [eaten |-> IF commits THEN F.eaten ELSE 0,
                             hist |-> F.hist]
                 /\ tx' = IF commits
                          THEN SetTop(Commit(Top, RepeatValue(F.node, type,
                                                              F.vals)))
                          ELSE tx
  /\ UNCHANGED <<rules, config, results, pos, skipper, ret>>

\* ------------------------------------------------------------------------
\* Rule
\* ------------------------------------------------------------------------

\* return self.__parser._parse(state)
RuleParse ==
  /\ At("_parse", "Rule", "start")
  /\ IF rules[F.node.name].k = "Unbound"
     THEN /\ err' = "AttributeError" /\ ctl' = ctl
     ELSE /\ err' = err
          /\ ctl' = Cont(Frame("_parse", rules[F.node.name], "start", 0))
  /\ UNCHANGED <<rules, cache, config, results, pos, skipper, tx, ret, body>>

\* ------------------------------------------------------------------------
\* Callers of ParserState
\* ------------------------------------------------------------------------

\* A Parser written against ParserState, in the manner of aux.py: its _parse
\* makes the given calls on the state, in order.
Calls(calls) ==
  [k |-> "Calls", calls |-> calls]

\* rollback(), for a transaction whose value was never set or was deleted:
\* the two flags are cleared before del looks for the attribute.
RollbackUnset(t) ==
  [t EXCEPT !.commit = FALSE, !.success = FALSE]

\* What del self._tx.value raises.
RollbackError(t) ==
  IF t.own THEN NoErr ELSE "AttributeError"

\* The current transaction after the call c.
AfterCall(c, t) ==
  CASE c.op = "commit" -> Commit(t, c.value)
    [] c.op = "succeed" -> Succeed(t, c.value)
    [] c.op = "rollback" -> IF t.own THEN Rollback(t) ELSE RollbackUnset(t)
    [] c.op = "uncommit" -> Uncommit(t)
    [] c.op = "read" -> t

\* One call on the state: read(1), commit, succeed, rollback or uncommit.
StateCall ==
  /\ At("_parse", "Calls", "start")
  /\ F.i < Len(F.node.calls)
  /\ LET c == F.node.calls[F.i + 1]
     IN  /\ pos' = IF c.op = "read" THEN pos + Len(Read(pos, 1)) ELSE pos
         /\ tx' = SetTop(AfterCall(c, Top))
         /\ err' = IF c.op = "rollback" THEN RollbackError(Top) ELSE NoErr
  /\ ctl' = Cont([F EXCEPT !.i = F.i + 1])
  /\ UNCHANGED <<rules, cache, config, results, skipper, ret, body>>

\* _parse returns after its last call.
StateCallsEnd ==
  /\ At("_parse", "Calls", "start")
  /\ F.i = Len(F.node.calls)
  /\ body' = [eaten |-> IF Top.commit THEN pos - Top.pos ELSE 0,
              hist |-> <<>>]
  /\ ctl' = Pop
  /\ UNCHANGED <<rules, cache, config, results, pos, skipper, tx, ret, err>>

\* ------------------------------------------------------------------------
\* Exceptions
\* ------------------------------------------------------------------------

\* An activation whose with blocks are not left when an exception passes.
OpenTxsNone(f) ==
  0

\* How many transactions the activation f holds open.
OpenTxs(f) ==
  IF f.op = "parse"
  THEN IF f.pc = "open" THEN 0
       ELSE IF f.pc \in {"skipret", "skipclose"} THEN 2 ELSE 1
  ELSE IF f.node.k = "Repeat" /\ f.pc = "wait" THEN 1 ELSE 0

\* An activation that leaves the skipper as it is when an exception passes.
RestoresSkipperNever(f) ==
  FALSE

\* Whether leaving the activation f restores the skipper it saved.
RestoresSkipper(f) ==
  IF f.op = "parse" THEN f.pc \in {"skip", "skipret", "skipclose"}
  ELSE f.node.k = "Directive" /\ f.node.func = "object_lexeme" /\ f.pc = "wait"

\* An unwinding that seeks to the start of the outermost transaction.
UnwoundToOutermost(txs, p, n) ==
  IF n = 0 THEN p ELSE txs[1].pos

\* The stream position after the n innermost transactions were left.
RECURSIVE Unwound(_, _, _)
Unwound(txs, p, n) ==
  IF n = 0 THEN p
  ELSE Unwound(SubSeq(txs, 1, Len(txs) - 1), RestorePos(txs[Len(txs)], p),
               n - 1)

\* The exception leaves the innermost activation: its finally blocks run.
Unwind ==
  /\ err # NoErr /\ ctl # <<>>
  /\ pos' = Unwound(tx, pos, OpenTxs(F))
  /\ tx' = SubSeq(tx, 1, Len(tx) - OpenTxs(F))
  /\ skipper' = IF RestoresSkipper(F) THEN F.sk ELSE skipper
  /\ ctl' = Pop
  /\ UNCHANGED <<rules, cache, config, results, ret, body, err>>

\* The exception leaves the top-level parse call.
Raise ==
  /\ err # NoErr /\ ctl = <<>>
  /\ results' = Append(results,
                       [out |-> "raise", val |-> None, pos |-> pos,
                        err |-> err])
  /\ err' = NoErr
  /\ UNCHANGED <<rules, cache, config, pos, skipper, tx, ctl, ret, body>>

\* ------------------------------------------------------------------------
\* Two parses of one tree
\* ------------------------------------------------------------------------

\* What belongs to the running parse alone: its input, its arguments, its
\* ParserState, its Python stack and what its calls returned.
Own ==
  [live |-> TRUE, text |-> text, skiparg |-> skiparg, start0 |-> start0,
   given |-> given, results |-> results, pos |-> pos, skipper |-> skipper,
   tx |-> tx, ctl |-> ctl, ret |-> ret, body |-> body, err |-> err]

\* There is no second parse.
Single ==
  [live |-> FALSE, text |-> <<>>, skiparg |-> NoParser, start0 |-> 0,
   given |-> NoState, results |-> <<>>, pos |-> 0, skipper |-> NoParser,
   tx |-> <<>>, ctl |-> <<>>, ret |-> NoRet, body |-> NoBody, err |-> NoErr]

\* A second parse that has not made its call yet, on its own input.
Waiting(t, s) ==
  [Single EXCEPT !.live = TRUE, !.text = t, !.skiparg = s]

\* The running parse is suspended between two of its steps and the other
\* one runs on: the tree (the Rules' targets and the attr_type values stored
\* on the nodes) is the only state the two have in common.
Switch ==
  /\ other.live
  /\ other' = Own
  /\ text' = other.text
  /\ skiparg' = other.skiparg
  /\ start0' = other.start0
  /\ given' = other.given
  /\ results' = other.results
  /\ pos' = other.pos
  /\ skipper' = other.skipper
  /\ tx' = other.tx
  /\ ctl' = other.ctl
  /\ ret' = other.ret
  /\ body' = other.body
  /\ err' = other.err
  /\ UNCHANGED <<rules, cache, job>>

\* ------------------------------------------------------------------------
\* The grammars, inputs and calls explored
\* ------------------------------------------------------------------------

Texts ==
  UNION {[1..n -> Alphabet] : n \in 0..MaxLen}

\* skipper=None and skipper=' '
SkipArgs ==
  {NoParser, [k |-> "pystr", s |-> <<" ">>]}

One ==
  Char({"1"})

Plus ==
  lit(<<"+">>)

OnePlus ==
  String(<<"1", "+">>)

\* Symbols({'1': 1, '1+': 2})
Table ==
  Symbols({<<<<"1">>, Obj(1)>>, <<<<"1", "+">>, Obj(2)>>}, NoType)

Leaves ==
  {One, AnyChar, OnePlus, Plus, PredicateChar("isdigit"), Table}

Small ==
  {One, Plus, OnePlus}

Pairs ==
  {SeqParser(<<x, y>>) : x, y \in Small} \cup {Alt(<<x, y>>) : x, y \in Small}
  \cup {SeqParser(<<>>), Alt(<<>>)}

Repeats ==
  {Repeat(One, m, n) : m \in 0..MaxRep, n \in {NoMax} \cup 0..MaxRep}
  \cup {Repeat(Plus, 0, NoMax), Repeat(OnePlus, 1, NoMax),
        Repeat(SeqParser(<<One, Plus>>), 0, NoMax),
        Repeat(predicate(One), 0, 1), Repeat(predicate(One), 1, MaxRep)}

Wrapped(x) ==
  {omit(x), as_string(x), lexeme(x), predicate(x), not_predicate(x),
   SemanticAction(x, "pack", NoType), SemanticAction(x, "count", NoType)}

Nested ==
  {Alt(<<SeqParser(<<x, y>>), z>>) : x, y, z \in {One, Plus}}
  \cup {SeqParser(<<Alt(<<x, y>>), z>>) : x, y, z \in {One, Plus}}
  \cup {SeqParser(<<predicate(One), AnyChar>>),
        SeqParser(<<not_predicate(Plus), AnyChar>>),
        SeqParser(<<One, Repeat(Plus, 0, 1), One>>),
        Alt(<<predicate(One), One>>),
        Alt(<<One, OnePlus>>), Alt(<<OnePlus, One>>)}

\* expr = Rule(); expr %= (One << '+' << expr) | One
Bindings ==
  [r \in RuleNames |->
     Or(LShift(LShift(One, Plus), Rule("expr", NoType)), One)]

Grammars ==
  Leaves \cup Pairs \cup Repeats \cup Nested
  \cup UNION {Wrapped(x) : x \in {One, Plus, SeqParser(<<One, Plus>>),
                                  SeqParser(<<One, One>>),
                                  Repeat(One, 1, NoMax)}}
  \cup {Rule("expr", NoType)}

Jobs ==
  {<<g>> : g \in Grammars}

\* Operands of the composition operators, one of them itself a Seq / an Alt.
SeqOperands ==
  {One, SeqParser(<<One, One>>)}

AltOperands ==
  {One, Alt(<<OnePlus, One>>)}

\* The same three operands composed as (a << b) << c, as a << (b << c) and
\* as Seq(a, b, c); and likewise with |.
Compositions ==
  {<<LShift(LShift(a, b), c), LShift(a, LShift(b, c)), SeqParser(<<a, b, c>>)>> :
     a \in SeqOperands, b \in {One, Plus}, c \in SeqOperands}
  \cup
  {<<Or(Or(a, b), c), Or(a, Or(b, c)), Alt(<<a, b, c>>)>> :
     a \in AltOperands, b \in {OnePlus}, c \in AltOperands}

\* lexeme['<' << +Char('agt') << '>']
Tag ==
  lexeme(LShift(LShift(lit(<<"<">>), Pos(Char({"a", "g", "t"}))),
                lit(<<">">>)))

\* Repeat(2, 4)[Char('1')] over five matches and over one match; the Tag
\* lexeme over "< tag>" and " <tag>" with skipper=' '.
Scenarios ==
  {[job |-> <<Repeat(One, 2, 4)>>, text |-> t, skiparg |-> NoParser,
    start0 |-> 0] : t \in {<<"1", "1", "1", "1", "1">>, <<"1">>}}
  \cup
  {[job |-> <<Tag>>, text |-> t, skiparg |-> [k |-> "pystr", s |-> <<" ">>],
    start0 |-> 0] :
     t \in {<<"<", " ", "t", "a", "g", ">">>, <<" ", "<", "t", "a", "g", ">">>}}

\* The inputs of the compositions: one character longer, so that a Seq of
\* four characters can match.
LongTexts ==
  Texts \cup [1..(MaxLen + 1) -> {"+", "1"}]

Configs ==
  {c \in [job : Jobs, text : Texts, skiparg : SkipArgs, start0 : {0, 1}] :
     c.start0 = 0 \/ (c.start0 <= Len(c.text) /\ Len(c.text) <= 2)}
  \cup [job : Compositions, text : LongTexts, skiparg : SkipArgs,
        start0 : {0}]
  \cup Scenarios

\* Semantic actions whose function takes one parameter or raises, alone
\* and after an earlier child of a Seq matched.
Actions ==
  LET acts == {SemanticAction(x, f, NoType) :
                 x \in {One, Plus, SeqParser(<<One, One>>)},
                 f \in {"first", "fail"}}
  IN  acts \cup {SeqParser(<<One, a>>) : a \in acts}
      \cup {Repeat(SemanticAction(One, "fail", NoType), 0, NoMax),
            Alt(<<SemanticAction(One, "fail", NoType), One>>)}

ActionConfigs ==
  [job : {<<a>> : a \in Actions},
   text : {t \in Texts : Len(t) <= 2} \cup {<<"1", "1", "1">>, <<" ", "1", "1">>},
   skiparg : SkipArgs, start0 : {0}]

\* omit[C] and omit[omit[C]] called on the same input.
OmitJobs ==
  {<<omit(x), omit(omit(x))>> :
     x \in {One, Plus, OnePlus, Table, SeqParser(<<One, Plus>>),
            Alt(<<One, OnePlus>>), Repeat(One, 0, NoMax), predicate(One),
            SemanticAction(One, "pack", NoType), Rule("expr", NoType)}}

OmitConfigs ==
  [job : OmitJobs, text : {t \in Texts : Len(t) <= 2}, skiparg : SkipArgs,
   start0 : {0}]

\* -r for a one-or-more repetition r, and Repeat(0, 1)[r] written out, called
\* on the same input.
NegJobs ==
  {<<Neg(Repeat(x, 1, n)), Repeat(Repeat(x, 1, n), 0, 1)>> :
     x \in {One, Plus, OnePlus, SeqParser(<<One, Plus>>)},
     n \in {NoMax, MaxRep}}

NegConfigs ==
  [job : NegJobs,
   text : {t \in Texts : Len(t) <= 2} \cup {<<"1", "1", "1">>},
   skiparg : SkipArgs, start0 : {0}]

\* The Rule alone and inside each kind of parser that runs a child.
Enclosing ==
  LET r == Rule("expr", NoType)
  IN  {r, SeqParser(<<r, One>>), SeqParser(<<One, r>>), Alt(<<r, One>>),
       Alt(<<Plus, r>>), Repeat(r, 0, 1), Repeat(r, 0, NoMax),
       SemanticAction(r, "pack", NoType), predicate(r), not_predicate(r),
       omit(r), lexeme(r), lexeme(lexeme(Rule("expr", "STRING")))}

\* Calls made while the Rule is not bound.
UnboundConfigs ==
  [job : {<<g>> : g \in Enclosing},
   text : {t \in Texts : Len(t) <= 2}, skiparg : SkipArgs, start0 : {0}]

\* Symbols({'1': 1}, AttrType.UNUSED): the values pass check_compatible.
Tagged ==
  Symbols({<<<<"1">>, Obj(1)>>}, "UNUSED")

\* A Symbols declared UNUSED, alone and under each kind of composition.
SymbolsConfigs ==
  [job : {<<Tagged>>, <<Repeat(Tagged, 0, 1)>>, <<Repeat(Tagged, 1, NoMax)>>,
          <<Alt(<<Tagged, One>>)>>, <<SeqParser(<<Tagged, One>>)>>},
   text : {t \in Texts : Len(t) <= 2}, skiparg : {NoParser}, start0 : {0}]

\* Parsers that succeed without committing, alone, with a semantic action
\* attached, and with one attached after a child that consumed.
Lookaheads ==
  LET idle == {predicate(One), not_predicate(One), eoi, eps}
      acts == {SemanticAction(x, f, NoType) :
                 x \in idle, f \in {"pack", "count"}}
  IN  {eoi, eps} \cup acts \cup {SeqParser(<<One, a>>) : a \in acts}

LookaheadConfigs ==
  [job : {<<p>> : p \in Lookaheads}, text : {t \in Texts : Len(t) <= 2},
   skiparg : SkipArgs, start0 : {0}]

\* lexemes inside lexemes, called with and without a skipper
LexemeConfigs ==
  [job : {<<lexeme(lexeme(One))>>,
          <<lexeme(SeqParser(<<lexeme(One), Plus>>))>>,
          <<SeqParser(<<lexeme(SeqParser(<<One, lexeme(Plus)>>)), One>>)>>},
   text : {t \in Texts : Len(t) <= 2}
          \cup {<<"1", "+", "1">>, <<" ", "1", "+">>, <<"1", " ", "+">>},
   skiparg : SkipArgs, start0 : {0}]

\* skipper=5, and skipper=Char(' ')
OddSkipArgs ==
  {[k |-> "pyobj"], Char({" "})}

\* Calls with every kind of skipper argument, on a str and on a ParserState.
UsageConfigs ==
  {c \in [job : {<<One>>}, text : {<<" ", "1">>, <<"1">>},
          skiparg : SkipArgs \cup OddSkipArgs, start0 : {0, 1}] :
     c.start0 <= Len(c.text)}

\* What a Rule declared with the expected type was bound to before.
Previous(expected) ==
  IF expected = "UNUSED" THEN omit(OnePlus) ELSE OnePlus

\* Values bound to a Rule: parsers of each attr_type, a str, an object().
BindValues ==
  {One, Plus, SeqParser(<<One, One>>), [k |-> "pystr", s |-> <<"+">>],
   [k |-> "pyobj"]}

\* rule = Rule(expected); rule %= value; rule.parse(text)
BindJobs(expected) ==
  {<<Bind(Rule("expr", expected), v), Rule("expr", expected)>> :
     v \in BindValues}

BindConfigs(expected) ==
  [job : BindJobs(expected),
   text : {<<"1", "+">>, <<"+">>, <<"1", "1">>}, skiparg : {NoParser},
   start0 : {0}]

\* chars.alpha, chars.digit, chars.space, chars.printable
CharClasses ==
  {PredicateChar(f) : f \in {"isalpha", "isdigit", "isspace", "isprintable"}}

\* The single-character parsers, called on each kind of character and at
\* the end of the input.
CharClassConfigs ==
  {c \in [job : {<<p>> : p \in CharClasses \cup {One, AnyChar}},
          text : {<<>>, <<"1">>, <<" ">>, <<"+">>, <<"a">>, <<" ", "a">>,
                  <<"1", " ">>},
          skiparg : SkipArgs, start0 : {0, 1}] :
     c.start0 <= Len(c.text)}

States ==
  {NoState, ParserState(NoParser), ParserState(Char({" "}))}

\* The state before the first call: the stream at start0, and the skipper
\* of the ParserState if the caller built one.
Start(c, r, g) ==
  /\ rules = r
  /\ cache = {}
  /\ job = c.job
  /\ text = c.text
  /\ skiparg = c.skiparg
  /\ start0 = c.start0
  /\ given = g
  /\ other = Single
  /\ results = <<>>
  /\ pos = c.start0
  /\ skipper = IF g.k = "ParserState" THEN g.skipper ELSE NoParser
  /\ tx = <<>>
  /\ ctl = <<>>
  /\ ret = NoRet
  /\ body = NoBody
  /\ err = NoErr

Init ==
  \/ \E c \in Configs : Start(c, Bindings, NoState)
  \/ \E c \in UnboundConfigs : Start(c, NoRules, NoState)
  \/ \E c \in UsageConfigs, g \in States : Start(c, Bindings, g)
  \/ \E c \in CharClassConfigs : Start(c, Bindings, NoState)
  \/ \E c \in ActionConfigs : Start(c, Bindings, NoState)
  \/ \E c \in OmitConfigs : Start(c, Bindings, NoState)
  \/ \E c \in NegConfigs : Start(c, Bindings, NoState)
  \/ \E c \in SymbolsConfigs : Start(c, Bindings, NoState)
  \/ \E c \in LookaheadConfigs : Start(c, Bindings, NoState)
  \/ \E c \in LexemeConfigs, g \in States : Start(c, Bindings, g)
  \/ \E e \in {NoType, "STRING", "UNUSED"} :
       \E c \in BindConfigs(e) :
         \/ Start(c, NoRules, NoState)
         \/ Start(c, [r \in RuleNames |-> Previous(e)], NoState)

Next ==
  \/ Call
  \/ BindRule
  \/ ParseOpen
  \/ SkipIter
  \/ SkipRet
  \/ SkipClose
  \/ ParseBody
  \/ ParseRet
  \/ Return
  \/ CharParse
  \/ EoiParse
  \/ EpsParse
  \/ PredicateCharParse
  \/ StringParse
  \/ SeqCall
  \/ SeqRet
  \/ SeqCommit
  \/ AltCall
  \/ AltRet
  \/ AltEnd
  \/ SymbolsCall
  \/ SymbolsRet
  \/ SymbolsEnd
  \/ ActionCall
  \/ ActionRet
  \/ DirectiveEnter
  \/ DirectiveExit
  \/ RepeatIter
  \/ RepeatRet
  \/ RepeatEnd
  \/ RuleParse
  \/ Unwind
  \/ Raise

Spec ==
  Init /\ [][Next]_vars

\* Trees shared by two parses: an Alt of two Seqs, a Seq of Seqs and a
\* Repeat of a SemanticAction, whose attr_type values are stored on first use.
Pair ==
  SeqParser(<<One, One>>)

Signs ==
  SeqParser(<<Plus, Plus>>)

SharedTexts(g) ==
  CASE g = Alt(<<SeqParser(<<Pair, Plus>>), SeqParser(<<Signs, One>>)>>) ->
         {<<"1", "1", "+">>, <<"+", "+", "1">>, <<"1", "+">>}
    [] g = SeqParser(<<Pair, Signs, One>>) ->
         {<<"1", "1", "+", "+", "1">>, <<"1", "1", "+">>}
    [] g = Repeat(SemanticAction(Pair, "count", NoType), 0, NoMax) ->
         {<<"1", "1", "1", "1">>, <<"1", "1", "+">>, <<"+">>}

SharedTrees ==
  {Alt(<<SeqParser(<<Pair, Plus>>), SeqParser(<<Signs, One>>)>>),
   SeqParser(<<Pair, Signs, One>>),
   Repeat(SemanticAction(Pair, "count", NoType), 0, NoMax)}

\* One call of the tree g on the text t, alone or beside a second parse.
StartShared(g, t, o) ==
  /\ rules = Bindings
  /\ cache = {}
  /\ job = <<g>>
  /\ text = t
  /\ skiparg = NoParser
  /\ start0 = 0
  /\ given = NoState
  /\ other = o
  /\ results = <<>>
  /\ pos = 0
  /\ skipper = NoParser
  /\ tx = <<>>
  /\ ctl = <<>>
  /\ ret = NoRet
  /\ body = NoBody
  /\ err = NoErr

InitShared ==
  \/ \E g \in SharedTrees : \E t \in SharedTexts(g) :
       \/ StartShared(g, t, Single)
       \/ \E u \in SharedTexts(g) : StartShared(g, t, Waiting(u, NoParser))
  \/ \E c \in CharClassConfigs \cup OmitConfigs : Start(c, Bindings, NoState)
  \/ \E c \in LookaheadConfigs :
       c.job \in {<<eoi>>, <<eps>>} /\ Start(c, Bindings, NoState)
  \/ \E c \in BindConfigs(NoType) \cup BindConfigs("STRING") :
       Start(c, NoRules, NoState)

NextShared ==
  \/ Next
  \/ Switch

SpecShared ==
  InitShared /\ [][NextShared]_vars

\* The longest run of calls a _parse makes on the state.
MaxCalls ==
  3

\* The calls: commit and succeed with a value and with the default.
StateCalls ==
  {[op |-> o, value |-> v] : o \in {"commit", "succeed"},
                             v \in {Str(<<"a">>), UNUSED}}
  \cup {[op |-> o, value |-> UNUSED] : o \in {"rollback", "uncommit", "read"}}

CallRuns ==
  UNION {[1..n -> StateCalls] : n \in 1..MaxCalls}

\* One parse of a caller of ParserState, on a text of its own.
InitState ==
  \E cs \in CallRuns, t \in {<<>>, <<"a">>, <<"a", "1">>} :
    Start([job |-> <<Calls(cs)>>, text |-> t, skiparg |-> NoParser,
           start0 |-> 0], Bindings, NoState)

NextState ==
  \/ Call
  \/ ParseOpen
  \/ ParseBody
  \/ StateCall
  \/ StateCallsEnd
  \/ ParseRet
  \/ Return
  \/ Unwind
  \/ Raise

SpecState ==
  InitState /\ [][NextState]_vars

\* The grammar of examples/calculator.py.
arith_op ==
  Or(SemanticAction(lit(<<"+">>), "add_action", NoType),
     SemanticAction(lit(<<"-">>), "sub_action", NoType))

mult_op ==
  Or(SemanticAction(lit(<<"*">>), "mul_action", NoType),
     SemanticAction(lit(<<"/">>), "div_action", NoType))

\* dec = lexeme[+Char('0123456789')][int], int having a signature or not
dec(int) ==
  SemanticAction(
    lexeme(Pos(Char({"0", "1", "2", "3", "4", "5", "6", "7", "8", "9"}))),
    int, NoType)

arith ==
  Rule("arith", NoType)

mult ==
  Rule("mult", NoType)

\* the Rule named value
value_rule ==
  Rule("value", NoType)

exp ==
  Rule("exp", NoType)

calc ==
  exp

\* mult %= ...; arith %= ...; value %= ...; exp %= arith
Calculator(int) ==
  [r \in {"arith", "mult", "value", "exp"} |->
     CASE r = "mult" ->
            Or(SemanticAction(LShift(LShift(value_rule, mult_op), mult),
                              "apply_action", NoType),
               value_rule)
       [] r = "arith" ->
            Or(SemanticAction(LShift(LShift(mult, arith_op), arith),
                              "apply_action", NoType),
               mult)
       [] r = "value" ->
            Or(dec(int),
               LShift(LShift(lit(<<"(">>), exp), lit(<<")">>)))
       [] r = "exp" -> arith]

\* The strings the example prints, with the skipper ' ' it passes.
Spaced ==
  {<<"1">>,
   <<"1", " ", "+", " ", "1">>,
   <<"2", " ", "*", " ", "5", " ", "+", " ", "2", "0">>,
   <<"2", " ", "*", " ", "(", "5", " ", "+", " ", "2", "0", ")">>,
   <<"2", " ", "*", " ", "3", " ", "*", " ", "4", " ", "+", " ", "1", "0", " ", "*", " ", "2", "0", " ", "*", " ", "3", "0">>}

\* Strings without spaces, for a parse without a skipper.
Unspaced ==
  {<<"2", "*", "3", "*", "4", "+", "1", "0", "*", "2", "0", "*", "3", "0">>,
   <<"2", "*", "(", "5", "+", "2", "0", ")">>,
   <<"(", "5", "+", "2", "0", ")", "*", "2">>,
   <<"+">>}

InitCalc ==
  \E int \in {"int", "int_sig"} :
    \/ \E t \in Spaced :
         Start([job |-> <<calc>>, text |-> t,
                skiparg |-> [k |-> "pystr", s |-> <<" ">>], start0 |-> 0],
               Calculator(int), NoState)
    \/ \E t \in Unspaced :
         Start([job |-> <<calc>>, text |-> t, skiparg |-> NoParser,
                start0 |-> 0],
               Calculator(int), NoState)

NextCalc ==
  \/ Call
  \/ ParseOpen
  \/ SkipIter
  \/ SkipRet
  \/ SkipClose
  \/ ParseBody
  \/ ParseRet
  \/ Return
  \/ CharParse
  \/ StringParse
  \/ SeqCall
  \/ SeqRet
  \/ AltCall
  \/ AltRet
  \/ AltEnd
  \/ ActionCall
  \/ ActionRet
  \/ DirectiveEnter
  \/ DirectiveExit
  \/ RepeatIter
  \/ RepeatRet
  \/ RepeatEnd
  \/ RuleParse
  \/ Unwind
  \/ Raise

SpecCalc ==
  InitCalc /\ [][NextCalc]_vars

\* ------------------------------------------------------------------------
\* Loops: Repeat without a maximum and the skip loop of Parser.parse, over
\* children that consume input and children that can succeed without
\* ------------------------------------------------------------------------

\* Children of which every successful match consumes a character.
Consuming ==
  {One, OnePlus, SeqParser(<<One, Repeat(Plus, 0, 1)>>), Alt(<<Plus, One>>)}

\* Children that can succeed without consuming: predicate[Char('1')],
\* not_predicate[Char('1')], -Char('1'), Char('1') | predicate['+'].
Idle ==
  {predicate(One), not_predicate(One), Repeat(One, 0, 1),
   Alt(<<One, predicate(Plus)>>)}

\* +child and *child on every text, without a skipper; Char('1') on every
\* text with each child as the skipper.
LoopConfigs ==
  [job : {<<Repeat(x, m, NoMax)>> : x \in Consuming \cup Idle, m \in {0, 1}},
   text : Texts, skiparg : {NoParser}, start0 : {0}]
  \cup
  [job : {<<One>>}, text : Texts,
   skiparg : {Char({" "}), Repeat(Char({" "}), 0, 1), predicate(Char({" "})),
              Repeat(Char({" "}), 1, NoMax)},
   start0 : {0}]

InitLoop ==
  \E c \in LoopConfigs : Start(c, NoRules, NoState)

NextLoop ==
  \/ Call
  \/ ParseOpen
  \/ SkipIter
  \/ SkipRet
  \/ SkipClose
  \/ ParseBody
  \/ ParseRet
  \/ Return
  \/ CharParse
  \/ StringParse
  \/ SeqCall
  \/ SeqRet
  \/ SeqCommit
  \/ AltCall
  \/ AltRet
  \/ AltEnd
  \/ DirectiveEnter
  \/ DirectiveExit
  \/ RepeatIter
  \/ RepeatRet
  \/ RepeatEnd

\* The interpreter is one sequential program: whenever it has a next step
\* it takes it.
SpecLoop ==
  InitLoop /\ [][NextLoop]_vars /\ WF_vars(NextLoop)

\* ------------------------------------------------------------------------
\* Properties
\* ------------------------------------------------------------------------

\* The parser a node's _parse ends up running: Rules are seen through.
RECURSIVE Target(_)
Target(n) ==
  IF n.k = "Rule" /\ rules[n.name].k # "Unbound"
  THEN Target(rules[n.name])
  ELSE n

\* A parse call of a node of kind k has just returned.
Returned(k) ==
  ret.set /\ Target(ret.node).k = k

\* The position at which the returned call's own _parse started: the call's
\* start plus the leading characters its skip loop consumed.
BodyStart ==
  ret.start + ret.skipped

RECURSIVE Consumed(_)
Consumed(h) ==
  IF h = <<>> THEN 0
  ELSE (IF Head(h).ok THEN Head(h).end - Head(h).start ELSE 0)
       + Consumed(Tail(h))

\* C1: Rollback invariant.  Whenever a parse call, top-level or nested at
\* any depth, returns failure, the stream is back at the position it had
\* when the call was made, also when the call's skip loop consumed leading
\* characters; and a top-level call that returned failure leaves the stream
\* at the position at which it was made.
C1_RollbackInvariant ==
  /\ (ret.set /\ ~ret.ok) => (ret.end = ret.start /\ pos = ret.start)
  /\ \A i \in 1..Len(results) :
       results[i].out = "failure" => results[i].pos = start0

\* A Seq call fails after its skip loop consumed input and after its first
\* child matched and consumed input.
C1_Witness ==
  /\ Returned("Seq") /\ ~ret.ok
  /\ ret.skipped > 0
  /\ Len(ret.hist) >= 2
  /\ ret.hist[1].ok /\ ret.hist[1].end > ret.hist[1].start
  /\ ret.at > ret.start

\* C2: Commit invariant.  Whenever a parse call returns success, the stream
\* has advanced from the call's position by exactly the characters the
\* matching branch consumed: the leading skipped characters plus the
\* characters of the successful sub-matches (nothing for failed alternatives,
\* failed iterations or lookahead), and by zero if the parser is
\* lookahead-only.
C2_CommitInvariant ==
  /\ (ret.set /\ ret.ok) =>
       /\ ret.end - ret.start = ret.eaten
       /\ pos = ret.end
       /\ LookaheadOnly(ret.node, {}) => ret.end = ret.start
  /\ \A i \in 1..Len(results) :
       results[i].out = "success" => results[i].pos >= start0

\* An Alt succeeds by its second branch after its first branch, a Seq, had
\* read input and failed, and after leading characters were skipped.
C2_Witness ==
  /\ Returned("Alt") /\ ret.ok
  /\ ret.skipped > 0
  /\ Len(ret.hist) = 2
  /\ ret.node.ps[1].k = "Seq"
  /\ ret.eaten > ret.skipped
  /\ ret.end - ret.start = ret.eaten

\* The stream position expected after the n innermost transactions of txs
\* are left, from position p: an uncommitted one puts the stream back at the
\* position recorded when it was opened, a committed one leaves it.
RECURSIVE AfterLeaving(_, _, _)
AfterLeaving(txs, p, n) ==
  IF n = 0 THEN p
  ELSE AfterLeaving(SubSeq(txs, 1, Len(txs) - 1),
                    IF txs[Len(txs)].commit THEN p ELSE txs[Len(txs)].pos,
                    n - 1)

\* C3: Leaving a transaction that was not committed puts the stream back at
\* the position recorded when it was opened and discards it; leaving a
\* committed one leaves the stream where it is.  The enclosing transactions
\* are never touched while a transaction is open above them, so at the
\* moment it is left their fields are what they were when it was opened.
C3_TransactionClose ==
  [][/\ \A i \in 1..(Len(tx) - 1) : i <= Len(tx') => tx'[i] = tx[i]
     /\ Len(tx') > Len(tx) =>
          /\ Len(tx') = Len(tx) + 1
          /\ SubSeq(tx', 1, Len(tx)) = tx
          /\ tx'[Len(tx')] = [pos |-> pos, commit |-> FALSE,
                              success |-> FALSE, value |-> UNUSED,
                              own |-> FALSE]
     /\ Len(tx') < Len(tx) =>
          /\ tx' = SubSeq(tx, 1, Len(tx'))
          /\ pos' = AfterLeaving(tx, pos, Len(tx) - Len(tx'))]_vars

\* A nested call has just left its transaction uncommitted after reading
\* input: the stream is back at that transaction's start, which lies after
\* the start of the enclosing transaction, whose fields are untouched.
C3_Witness ==
  /\ ret.set /\ ~ret.ok
  /\ ret.at > ret.end
  /\ tx # <<>>
  /\ pos = ret.start
  /\ pos > Top.pos
  /\ ~Top.commit /\ ~Top.success

\* C4: Alternative is priority-ordered choice.  The children are tried in
\* order 1, 2, ...; every child tried before the last one tried failed; on
\* success the last child tried succeeded and the Alt's value is that
\* child's value (so no child after the first successful one is tried); and
\* the Alt fails exactly when all its children were tried and failed.
C4_AltPriority ==
  Returned("Alt") =>
    LET h == ret.hist
        n == Len(Target(ret.node).ps)
    IN  /\ Len(h) <= n
        /\ \A j \in 1..Len(h) : h[j].i = j
        /\ \A j \in 1..(Len(h) - 1) : ~h[j].ok
        /\ ret.ok => /\ Len(h) >= 1
                     /\ h[Len(h)].ok
                     /\ ret.val = h[Len(h)].val
        /\ ~ret.ok => /\ Len(h) = n
                      /\ \A j \in 1..n : ~h[j].ok

\* Char('1') | String('1+') over "1+": the first child wins although the
\* second would match more input.
C4_Witness ==
  /\ Returned("Alt") /\ ret.ok
  /\ ret.node = Alt(<<One, OnePlus>>)
  /\ Read(ret.start, 2) = <<"1", "+">>
  /\ Len(ret.hist) = 1
  /\ ret.val = Str(<<"1">>)
  /\ ret.end = ret.start + 1

\* C5: Backtracking between Alternative branches.  Every branch of an Alt
\* starts at the position where the Alt's own matching started, whatever
\* the earlier branches read before failing; and expr = (One '+' expr) | One
\* over "1+" succeeds with the value of One and leaves "+" unread.
C5_AltBacktracks ==
  /\ Returned("Alt") =>
       \A j \in 1..Len(ret.hist) : ret.hist[j].start = BodyStart
  /\ (/\ job = <<Rule("expr", NoType)>> /\ rules = Bindings
      /\ text = <<"1", "+">> /\ start0 = 0 /\ skiparg = NoParser
      /\ Len(results) = 1) =>
       /\ results[1].out = "success"
       /\ results[1].val = Str(<<"1">>)
       /\ results[1].pos = 1
       /\ Read(pos, 1) = <<"+">>

\* The call of expr over "1+" has returned "1" with the stream at offset 1.
C5_Witness ==
  /\ job = <<Rule("expr", NoType)>> /\ rules = Bindings
  /\ text = <<"1", "+">> /\ start0 = 0 /\ skiparg = NoParser
  /\ Len(results) = 1
  /\ results[1].out = "success"
  /\ results[1].pos = 1

\* C6: Seq evaluates its children left to right, each starting where the
\* previous one ended; a child that fails is the last one evaluated and the
\* Seq then fails, with the stream back at the position of the call; a Seq
\* that succeeds evaluated all its children and all succeeded.
C6_SeqOrder ==
  Returned("Seq") =>
    LET h == ret.hist
        n == Len(Target(ret.node).ps)
    IN  /\ Len(h) <= n
        /\ \A j \in 1..Len(h) : h[j].i = j
        /\ \A j \in 1..(Len(h) - 1) :
             h[j].ok /\ h[j + 1].start = h[j].end
        /\ Len(h) >= 1 => h[1].start = BodyStart
        /\ ret.ok => Len(h) = n /\ \A j \in 1..n : h[j].ok
        /\ ~ret.ok => /\ Len(h) >= 1
                      /\ ~h[Len(h)].ok
                      /\ ret.end = ret.start
                      /\ pos = ret.start

\* A Seq of three children fails at its second child after the first one
\* consumed input: the third is never evaluated.
C6_Witness ==
  /\ Returned("Seq") /\ ~ret.ok
  /\ ret.node.k = "Seq"
  /\ Len(ret.node.ps) = 3
  /\ Len(ret.hist) = 2
  /\ ret.hist[1].ok /\ ret.hist[1].end > ret.hist[1].start
  /\ pos = ret.start

\* The values, in order, of the evaluated children whose attr_type is not
\* UNUSED.
RECURSIVE Valued(_, _)
Valued(ps, h) ==
  IF h = <<>> THEN <<>>
  ELSE (IF AttrTypeOf(ps[Head(h).i], rules, {}) # "UNUSED"
        THEN <<Head(h).val>> ELSE <<>>)
       \o Valued(ps, Tail(h))

\* C7: Attribute collapsing.  A Seq that succeeds yields UNUSED if none of
\* its children has a non-UNUSED attr_type, the bare value of the only such
\* child if there is exactly one, and otherwise the tuple of those
\* children's values in left-to-right order.
C7_AttributeCollapsing ==
  (Returned("Seq") /\ ret.ok /\ ret.node.k = "Seq") =>
    LET vs == Valued(ret.node.ps, ret.hist)
    IN  /\ Len(vs) = 0 => ret.val = UNUSED
        /\ Len(vs) = 1 => ret.val = vs[1]
        /\ Len(vs) >= 2 => ret.val = Tuple(vs)

\* A Seq with one STRING child and one UNUSED child yields the bare string.
C7_Witness ==
  /\ Returned("Seq") /\ ret.ok
  /\ ret.node = SeqParser(<<One, Plus>>)
  /\ ret.val = Str(<<"1">>)
\* The calls made are the three compositions of the same operands.
Composed ==
  Len(job) = 3 /\ Len(results) = 3

\* C8 (as stated): for all operands the parsers built as (A << B) << C, as
\* A << (B << C) and as Seq(A, B, C) return identical (success, value) and
\* leave the stream at the same position.
C8_AsStated ==
  Composed =>
    /\ results[1] = results[2]
    /\ results[1] = results[3]

\* C8: Sequence associativity.  (A << B) << C and A << (B << C) are the same
\* parser, a Seq whose children are the operands with every operand that is
\* itself a Seq replaced by its children (likewise | and Alt), and return
\* identical results; they succeed exactly when Seq(A, B, C) does and leave
\* the stream at the same position; and they return the same value as
\* Seq(A, B, C) when none of A, B, C is itself a Seq.  The three Alt
\* compositions return identical results.
C8_SeqAssociativity ==
  /\ \A x, y \in {SeqParser(<<One, One>>), SeqParser(<<One, Plus, One>>)} :
       LShift(x, y) = SeqParser(x.ps \o y.ps)
  /\ \A x, y \in {Alt(<<OnePlus, One>>), Alt(<<One>>)} :
       Or(x, y) = Alt(x.ps \o y.ps)
  /\ Len(job) = 3 => job[1] = job[2]
  /\ Composed =>
       /\ results[1] = results[2]
       /\ results[1].out = results[3].out
       /\ results[1].pos = results[3].pos
       /\ (\A j \in 1..3 : job[3].ps[j].k # "Seq") =>
            results[1] = results[3]

\* Seq(One, One) << One << One and Seq(Seq(One, One), One, One) both matched
\* "1111"; the first returned a 4-tuple, the second a tuple in a tuple.
C8_Witness ==
  /\ Composed
  /\ job[3] = SeqParser(<<SeqParser(<<One, One>>), One, One>>)
  /\ results[1].out = "success" /\ results[3].out = "success"
  /\ results[1].pos = results[3].pos
  /\ results[1].val = Tuple(<<Str(<<"1">>), Str(<<"1">>), Str(<<"1">>),
                             Str(<<"1">>)>>)
  /\ results[3].val # results[1].val

\* C9: Repetition bounds.  Repeat(min, max)[C] runs C in successive
\* sub-transactions, each starting where the previous one ended; it stops at
\* the first failing iteration or after max successful ones; it succeeds
\* exactly when the number of successful iterations is at least min; on
\* success it has consumed, from where its matching started, exactly the
\* input of the successful iterations, and on failure the stream is back at
\* the position of the call.  Repeat(2, 4) over five matches succeeds having
\* consumed four; over one match it fails having consumed nothing.
C9_RepetitionBounds ==
  /\ (Returned("Repeat") /\ ret.node.k = "Repeat") =>
       LET h == ret.hist
           n == ret.node
           good == Cardinality({j \in 1..Len(h) : h[j].ok})
       IN  /\ \A j \in 1..Len(h) : h[j].i = j
           /\ \A j \in 1..(Len(h) - 1) :
                h[j].ok /\ h[j + 1].start = h[j].end
           /\ Len(h) >= 1 => h[1].start = BodyStart
           /\ n.max # NoMax => good <= n.max
           /\ (Len(h) = 0 \/ h[Len(h)].ok) => (n.max # NoMax /\ good = n.max)
           /\ ret.ok <=> good >= n.min
           /\ ret.ok => ret.end = BodyStart + Consumed(h)
           /\ ~ret.ok => ret.end = ret.start /\ pos = ret.start
  /\ \A i \in 1..Len(results) :
       (job[i] = Repeat(One, 2, 4) /\ start0 = 0 /\ skiparg = NoParser) =>
         /\ text = <<"1", "1", "1", "1", "1">> =>
              results[i].out = "success" /\ results[i].pos = 4
         /\ text = <<"1">> =>
              results[i].out = "failure" /\ results[i].pos = 0

\* Repeat(2, 4)[One] over "11111" has returned success with the stream at
\* offset 4.
C9_Witness ==
  /\ Returned("Repeat") /\ ret.ok
  /\ ret.node = Repeat(One, 2, 4)
  /\ text = <<"1", "1", "1", "1", "1">>
  /\ Len(ret.hist) = 4
  /\ pos = 4

\* C10: The optional repetition (minimum 0, maximum 1) always succeeds.  If
\* the child matched, the value is the child's bare value and the child's
\* input is consumed; if it did not, the value is UNUSED and nothing is
\* consumed after the position where the optional's matching started.
C10_Optional ==
  (Returned("Repeat") /\ ret.node.k = "Repeat"
   /\ ret.node.min = 0 /\ ret.node.max = 1) =>
    LET h == ret.hist
    IN  /\ ret.ok
        /\ Len(h) = 1
        /\ h[1].start = BodyStart
        /\ h[1].ok => ret.val = h[1].val /\ ret.end = h[1].end
        /\ ~h[1].ok => ret.val = UNUSED /\ ret.end = BodyStart

\* An optional inside a Seq did not match: it returned UNUSED without
\* consuming anything, after its child had read input.
C10_Witness ==
  /\ Returned("Repeat") /\ ret.ok
  /\ ret.node.min = 0 /\ ret.node.max = 1
  /\ ctl # <<>>
  /\ ~ret.hist[1].ok
  /\ ret.val = UNUSED
  /\ ret.end = ret.start
  /\ ret.start < Len(text)
\* A parse call of the directive func[...] itself has just returned.
ReturnedDirective(func) ==
  ret.set /\ ret.node.k = "Directive" /\ ret.node.func = func

\* C11: Positive lookahead.  predicate[C] succeeds exactly when C succeeds
\* at the current position, its value is then UNUSED, and whether it
\* succeeds or fails the stream is left at the position of the call,
\* whatever C read or committed.
C11_Predicate ==
  /\ ReturnedDirective("predicate") =>
       /\ Len(ret.hist) = 1
       /\ ret.hist[1].start = BodyStart
       /\ ret.ok <=> ret.hist[1].ok
       /\ ret.ok => ret.val = UNUSED
       /\ ret.end = ret.start
       /\ pos = ret.start
  /\ Invert(One) = predicate(One)

\* predicate[Seq(One, Plus)] succeeded after the Seq had read and committed
\* two characters: the stream is back where the call was made.
C11_Witness ==
  /\ ReturnedDirective("predicate") /\ ret.ok
  /\ ret.node.p.k = "Seq"
  /\ ret.hist[1].end = ret.hist[1].start + 2
  /\ ret.val = UNUSED
  /\ pos = ret.start

\* C12: Negative lookahead.  not_predicate[C] fails exactly when C succeeds
\* at the current position and succeeds, with the value UNUSED, exactly when
\* C fails; in both cases the stream is left at the position of the call.
C12_NotPredicate ==
  ReturnedDirective("not_predicate") =>
    /\ Len(ret.hist) = 1
    /\ ret.hist[1].start = BodyStart
    /\ ret.ok <=> ~ret.hist[1].ok
    /\ ret.ok => ret.val = UNUSED
    /\ ret.end = ret.start
    /\ pos = ret.start

\* not_predicate[Seq(One, Plus)] failed because the Seq matched two
\* characters, none of which stays consumed.
C12_Witness ==
  /\ ReturnedDirective("not_predicate") /\ ~ret.ok
  /\ ret.node.p.k = "Seq"
  /\ ret.hist[1].ok
  /\ ret.hist[1].end = ret.hist[1].start + 2
  /\ pos = ret.start
\* C13: Lexeme isolates whitespace.  With a skip policy configured, the
\* skippable characters before a lexeme are skipped by its parse call, and
\* no parse call made while the lexeme's wrapped parser runs performs any
\* skipping; with skipper ' ', lexeme['<' << +Char('agt') << '>'] fails on
\* "< tag>" and succeeds on " <tag>" with the string "tag".
C13_Lexeme ==
  /\ \A i \in 1..Len(ctl) :
       (/\ ctl[i].op = "_parse" /\ ctl[i].node.k = "Directive"
        /\ ctl[i].node.func = "object_lexeme" /\ ctl[i].pc = "wait") =>
         /\ \A j \in (i + 1)..Len(ctl) :
              ctl[j].op = "parse" =>
                /\ ctl[j].pc \notin {"skip", "skipret", "skipclose"}
                /\ ctl[j].sk = NoParser
                /\ ctl[j].eaten = 0
         /\ skipper = NoParser
  /\ (/\ ret.set /\ ctl = <<>> /\ skiparg.k = "pystr"
      /\ ret.node.k = "Directive" /\ ret.node.func = "as_string"
      /\ ret.node.p.k = "Directive" /\ ret.node.p.func = "object_lexeme") =>
       /\ \A j \in 1..ret.skipped : text[ret.start + j] = " "
       /\ Read(BodyStart, 1) # <<" ">>
  /\ (job = <<Tag>> /\ Len(results) = 1) =>
       /\ text = <<"<", " ", "t", "a", "g", ">">> =>
            /\ results[1].out = "failure"
            /\ results[1].pos = 0
       /\ text = <<" ", "<", "t", "a", "g", ">">> =>
            /\ results[1].out = "success"
            /\ results[1].val = Str(<<"t", "a", "g">>)
            /\ results[1].pos = 6

\* The Tag lexeme has matched " <tag>": its parse call skipped the leading
\* space and returned "tag".
C13_Witness ==
  /\ ret.set /\ ret.ok /\ ctl = <<>>
  /\ ret.node = Tag
  /\ text = <<" ", "<", "t", "a", "g", ">">>
  /\ ret.skipped = 1
  /\ ret.val = Str(<<"t", "a", "g">>)
  /\ pos = 6
\* Whether the character c is one the skip parser sk matches.
Skippable(sk, c) ==
  sk.k = "Char" /\ (sk.any \/ c \in sk.chars)

\* C14: Skipping.  With a skip policy configured, a parse call first runs
\* the skip parser until it fails and only then its target: while the skip
\* loop runs, the call above it is the skip parser's, each attempt has a
\* transaction of its own that is committed exactly when the attempt
\* matched, and when the target is invoked the stream is at the first
\* character after the call's position that is not skippable, whatever the
\* last attempt read.
C14_SkipFirst ==
  /\ \A i \in 1..Len(ctl) :
       (ctl[i].op = "parse"
        /\ ctl[i].pc \in {"skip", "skipret", "skipclose"}) =>
         /\ ctl[i].sk # NoParser
         /\ i < Len(ctl) =>
              /\ ctl[i].pc = "skipret"
              /\ ctl[i + 1].op = "parse"
              /\ ctl[i + 1].node = ctl[i].sk
  /\ (Running /\ F.op = "parse" /\ F.pc = "skipret" /\ ret.set) =>
       /\ Len(tx) >= 2
       /\ Top.pos = F.start + F.eaten
       /\ ~Top.commit
       /\ pos = Top.pos + (IF ret.ok THEN ret.end - ret.start ELSE 0)
  /\ (Running /\ F.op = "parse" /\ F.pc = "skipclose") =>
       /\ Len(tx) >= 2
       /\ Top.commit <=> Top.success
       /\ Top.commit => pos = F.start + F.eaten
  /\ (Running /\ F.op = "parse" /\ F.pc = "body" /\ F.sk # NoParser) =>
       /\ pos = F.start + F.eaten
       /\ Top.pos = F.start
       /\ ~Top.commit /\ ~Top.success
       /\ skipper = F.sk
       /\ \A j \in 1..F.eaten : Skippable(F.sk, text[F.start + j])
       /\ Read(pos, 1) # <<>> => ~Skippable(F.sk, Read(pos, 1)[1])

\* Two characters were skipped and the attempt that read the "1" after them
\* was rolled back: the target is about to start at that "1".
C14_Witness ==
  /\ Running /\ F.op = "parse" /\ F.pc = "body" /\ F.sk # NoParser
  /\ F.eaten = 2
  /\ pos = F.start + 2
  /\ Read(pos, 1) = <<"1">>
\* Whether a Rule occurs in the parser n.
RECURSIVE HasRule(_)
HasRule(n) ==
  CASE n.k = "Rule" -> TRUE
    [] n.k \in {"Seq", "Alt"} -> \E j \in 1..Len(n.ps) : HasRule(n.ps[j])
    [] n.k \in {"Action", "Directive", "Repeat"} -> HasRule(n.p)
    [] OTHER -> FALSE

\* C15: An ordinary match failure is never raised.  A parse call that does
\* not match returns (False, None); a parser built without Rules never
\* raises, whatever the input and the position, unless its arguments are
\* misused or a semantic action's function raises; and Char and String
\* called where the read runs into the end of the input return failure.
C15_FailureIsReturned ==
  /\ (ret.set /\ ~ret.ok) => ret.val = None
  /\ \A i \in 1..Len(results) :
       /\ results[i].out = "failure" =>
            results[i].val = None /\ results[i].err = NoErr
       /\ (results[i].out = "raise" /\ job[i].k # "Bind"
           /\ results[i].err \notin {"TypeError", "ZeroDivisionError"}) =>
            HasRule(job[i])
       /\ (job[i].k \in {"Char", "String"} /\ start0 = Len(text)
           /\ ~UsageError(given, skiparg)) =>
            results[i].out = "failure"
       /\ (job[i] = OnePlus /\ start0 = Len(text) - 1
           /\ ~UsageError(given, skiparg)) =>
            results[i].out = "failure"
  /\ (err # NoErr /\ ctl # <<>>) =>
       F.node.k \notin {"Char", "String", "PredChar", "Symbols"}

\* String("1+") was called one character before the end of the input: the
\* read came back short and the call returned failure.
C15_Witness ==
  /\ ret.set /\ ~ret.ok /\ ret.val = None
  /\ ret.node = OnePlus
  /\ ret.start = Len(text) - 1
  /\ ret.at = Len(text)
  /\ text[Len(text)] = "1"
  /\ err = NoErr
\* The Rule is run by every call of the parser n, whatever the input.
AlwaysRunsRule(n) ==
  /\ n \in Enclosing
  /\ n \notin {SeqParser(<<One, Rule("expr", NoType)>>),
               Alt(<<Plus, Rule("expr", NoType)>>)}

\* C16: Parsing through an unbound Rule raises AttributeError, and the
\* exception is not turned into a failure by an enclosing Seq, Alt, Repeat,
\* SemanticAction or directive: from the moment the unbound Rule is run,
\* every step leaves one activation with the exception still in flight,
\* until the top-level parse call raises it to its caller.
C16_UnboundRuleRaises ==
  /\ [](\A i \in 1..Len(results) :
          /\ (rules = NoRules /\ AlwaysRunsRule(job[i])) =>
               /\ results[i].out = "raise"
               /\ results[i].err = "AttributeError"
          /\ (results[i].err = "AttributeError" /\ job[i].k # "Bind") =>
               results[i].out = "raise" /\ rules = NoRules)
  /\ [][/\ (/\ ctl # <<>> /\ err = NoErr
            /\ F.op = "_parse" /\ F.node.k = "Rule" /\ F.pc = "start"
            /\ rules[F.node.name].k = "Unbound") =>
             err' = "AttributeError" /\ ctl' = ctl /\ ~ret'.set
        /\ (err = "AttributeError" /\ ctl # <<>>) =>
             /\ err' = "AttributeError"
             /\ ctl' = SubSeq(ctl, 1, Len(ctl) - 1)
             /\ results' = results
             /\ ~ret'.set
        /\ (err = "AttributeError" /\ ctl = <<>>) =>
             /\ Len(results') = Len(results) + 1
             /\ results'[Len(results')].out = "raise"
             /\ results'[Len(results')].err = "AttributeError"]_vars

\* Seq(One, expr) matched "1" and then ran the unbound Rule: the top-level
\* call raised AttributeError and the stream is back at the call's position.
C16_Witness ==
  /\ rules = NoRules
  /\ job = <<SeqParser(<<One, Rule("expr", NoType)>>)>>
  /\ Len(results) = 1
  /\ results[1].out = "raise"
  /\ results[1].err = "AttributeError"
  /\ pos = start0
  /\ tx = <<>>
\* The call passes a ParserState together with a skipper, or a skipper that
\* is neither None, a str nor a Parser.
Misused ==
  \/ given.k = "ParserState" /\ skiparg.k # "None"
  \/ skiparg.k \notin {"None", "pystr", "Char"}

\* C17: Usage errors.  A parse call given a ParserState together with a
\* skipper, or a skipper that is neither None, a str nor a Parser, raises
\* TypeError as its first and only step: no transaction is opened, nothing
\* is read, and the stream position and the ParserState's skipper are what
\* they were before the call.
C17_UsageError ==
  /\ [](Misused =>
          /\ tx = <<>> /\ ctl = <<>> /\ ~ret.set
          /\ pos = start0
          /\ skipper = (IF given.k = "ParserState" THEN given.skipper
                        ELSE NoParser)
          /\ \A i \in 1..Len(results) :
               /\ results[i].out = "raise"
               /\ results[i].err = "TypeError"
               /\ results[i].pos = start0)
  /\ []((job = <<One>> /\ ~Misused) =>
          \A i \in 1..Len(results) : results[i].out # "raise")
  /\ [][(Misused /\ Len(results) < Len(job)) =>
          /\ results' = Append(results,
                               [out |-> "raise", val |-> None,
                                pos |-> start0, err |-> "TypeError"])
          /\ UNCHANGED <<pos, skipper, tx, ctl>>]_vars

\* One.parse(state, ' ') was called with a ParserState whose skipper is
\* Char(' ') and whose stream is at offset 1: TypeError, and nothing moved.
C17_Witness ==
  /\ given = ParserState(Char({" "}))
  /\ skiparg = [k |-> "pystr", s |-> <<" ">>]
  /\ start0 = 1
  /\ Len(results) = 1
  /\ results[1].out = "raise"
  /\ results[1].err = "TypeError"
  /\ pos = 1
  /\ skipper = Char({" "})
  /\ tx = <<>>

\* The target a bound value stands for: a literal string is wrapped in lit.
BindTarget(value) ==
  IF value.k = "pystr" THEN lit(value.s) ELSE value

\* The next statement of the grammar's author binds a Rule to a combinator
\* or to a literal string.
Binding ==
  /\ ctl = <<>> /\ err = NoErr
  /\ Len(results) < Len(job)
  /\ job[Len(results) + 1].k = "Bind"
  /\ job[Len(results) + 1].value.k # "pyobj"

\* C18: Binding a Rule that declared an expected attribute type to a target
\* (a combinator or a literal string) whose attr_type differs raises at bind
\* time and leaves the Rule as it was (unbound or bound to its previous
\* target); binding a target of the same attr_type, and any binding of a
\* Rule without an expected type, replaces the target.
C18_AsStated ==
  [][Binding =>
       LET cmd == job[Len(results) + 1]
           target == BindTarget(cmd.value)
           type == AttrTypeOf(target, rules, {})
           last == results'[Len(results')]
       IN  /\ Len(results') = Len(results) + 1
           /\ IF cmd.rule.expected # NoType /\ type # cmd.rule.expected
              THEN last.out = "raise" /\ rules' = rules
              ELSE /\ last.out = "bound"
                   /\ rules' = [rules EXCEPT ![cmd.rule.name] = target]]_vars

\* The character c satisfies the restriction of the single-character parser n.
Satisfies(n, c) ==
  CASE n.k = "Char" -> n.any \/ c \in n.chars
    [] n.func = "isdigit" -> c = "1"
    [] n.func = "isspace" -> c = " "
    [] n.func = "isalpha" -> c \in {"a", "g", "t"}
    [] n.func = "isprintable" -> c \in Alphabet \cup {"<", ">", "a", "g", "t"}

\* C19: A single-character primitive (Char with a set, Char without
\* restriction, or a character class such as alpha, digit, space, printable)
\* succeeds only if the read returned a character and the character
\* satisfies the restriction: it never succeeds at the end of the input, and
\* a success consumes exactly one character and yields it.
C19_AsStated ==
  (ret.set /\ ret.node.k \in {"Char", "PredChar"}) =>
    /\ BodyStart = Len(text) => ~ret.ok
    /\ ret.ok =>
         /\ BodyStart < Len(text)
         /\ Satisfies(ret.node, text[BodyStart + 1])
         /\ ret.end = BodyStart + 1
         /\ ret.val = Str(<<text[BodyStart + 1]>>)

\* The literal key stands in the input at position p.
MatchesAt(key, p) ==
  /\ p + Len(key) <= Len(text)
  /\ SubSeq(text, p + 1, p + Len(key)) = key

\* The key a comes before the key b in lexicographic order: a is a proper
\* prefix of b, or a has the smaller character where they first differ.
KeyBefore(a, b) ==
  \/ Len(a) < Len(b) /\ SubSeq(b, 1, Len(a)) = a
  \/ \E n \in 1..Min(Len(a), Len(b)) :
       /\ SubSeq(a, 1, n - 1) = SubSeq(b, 1, n - 1)
       /\ Ord(a[n]) < Ord(b[n])

\* C20: Symbols tries its literals in sorted (lexicographic) key order and
\* commits the mapped value of the first literal that matches, consuming
\* only that literal; it is not longest-match: Symbols({'1': 1, '1+': 2})
\* on "1+" yields 1 and leaves "+" unconsumed.  When no literal matches it
\* fails and consumes nothing.
C20_SymbolsFirstMatch ==
  /\ (ret.set /\ ret.node.k = "Symbols") =>
       LET syms == ret.node.syms
           hits == {i \in 1..Len(syms) : MatchesAt(syms[i][1], BodyStart)}
       IN  /\ \A i, j \in 1..Len(syms) :
                i < j => KeyBefore(syms[i][1], syms[j][1])
           /\ \A i \in 1..Len(ret.hist) : ret.hist[i].i = i
           /\ IF hits = {}
              THEN /\ ~ret.ok /\ ret.val = None
                   /\ ret.end = ret.start
                   /\ Len(ret.hist) = Len(syms)
              ELSE LET m == CHOOSE i \in hits : \A j \in hits : i <= j
                   IN  /\ ret.ok
                       /\ ret.val = syms[m][2]
                       /\ ret.end = BodyStart + Len(syms[m][1])
                       /\ Len(ret.hist) = m
                       /\ \A j \in 1..(m - 1) : ~ret.hist[j].ok
  /\ \A i \in 1..Len(results) :
       (job[i] = Table /\ text = <<"1", "+">> /\ start0 = 0) =>
         /\ results[i].out = "success"
         /\ results[i].val = Obj(1)
         /\ results[i].pos = 1

\* Symbols({'1': 1, '1+': 2}) was called on "1+": the shorter key, first in
\* sorted order, matched at the first attempt; the call returned 1 and the
\* "+" is still unread.
C20_Witness ==
  /\ ret.set /\ ret.ok
  /\ ret.node = Table
  /\ text = <<"1", "+">>
  /\ ret.start = 0
  /\ ret.val = Obj(1)
  /\ ret.end = 1
  /\ Len(ret.hist) = 1
  /\ MatchesAt(<<"1", "+">>, 0)

\* The positional parameters the claim prescribes for the action node n
\* whose child left the value: none for a child of attr_type UNUSED, the
\* elements of a tuple, otherwise the value alone.
ChildParams(n, value) ==
  IF AttrTypeOf(n.p, rules, {}) = "UNUSED" THEN <<>>
  ELSE IF value.t = "tuple" THEN value.v
  ELSE <<value>>

\* The function accepts the parameters and returns.
Returns(func, params) ==
  \/ func \in {"pack", "count"}
  \/ func = "first" /\ Len(params) = 1

\* C21: A SemanticAction invokes its function only after its child
\* succeeded: when the child failed nothing is invoked, the transaction is
\* left as the child left it and the parse call returns failure with
\* nothing consumed.  After a success the function is called with no
\* parameter if the child's attr_type is UNUSED, with the elements of the
\* child's value if it is a tuple, otherwise with the value alone, and what
\* it returns becomes the value of the parse.
C21_SemanticAction ==
  /\ [](/\ (ret.set /\ ret.node.k = "Action" /\ ~ret.ok) =>
             ret.val = None /\ ret.end = ret.start
        /\ \A i \in 1..Len(results) :
             (job[i].k = "Action" /\ results[i].out = "success"
              /\ job[i].p = SeqParser(<<One, One>>)) =>
               results[i].val = Apply(job[i].func, <<Str(<<"1">>), Str(<<"1">>)>>))
  /\ [][At("_parse", "Action", "wait") =>
          LET params == ChildParams(F.node, Top.value)
          IN  IF ~Top.success
              THEN tx' = tx /\ err' = NoErr /\ pos' = pos
              ELSE IF Returns(F.node.func, params)
              THEN /\ err' = NoErr
                   /\ tx' = [tx EXCEPT ![Len(tx)] =
                               [Top EXCEPT !.value = Apply(F.node.func, params),
                                           !.success = TRUE, !.own = TRUE]]
              ELSE err' # NoErr /\ tx' = tx]_vars

\* count was called with the two elements of the tuple its child, a Seq of
\* two characters, had yielded, and the call returned 2.
C21_Witness ==
  /\ job = <<SemanticAction(SeqParser(<<One, One>>), "count", NoType)>>
  /\ Len(results) = 1
  /\ results[1].out = "success"
  /\ results[1].val = Obj(2)
  /\ results[1].pos = 2

\* The two calls made are omit[C] and omit[omit[C]] for some parser C.
OmitTwiceCalled ==
  /\ Len(job) = 2
  /\ job[1].k = "Directive" /\ job[1].func = "omit"
  /\ job[2].k = "Directive" /\ job[2].func = "omit"
  /\ job[2].p = job[1]

\* C22: omit is idempotent.  Called on the same input at the same position,
\* omit[omit[C]] returns the same success flag and the same value as
\* omit[C], UNUSED on success, and leaves the stream at the same position;
\* both have attr_type UNUSED.
C22_OmitIdempotent ==
  OmitTwiceCalled =>
    /\ AttrTypeOf(job[1], rules, {}) = "UNUSED"
    /\ AttrTypeOf(job[2], rules, {}) = "UNUSED"
    /\ Len(results) = 2 =>
         /\ results[1].out = results[2].out
         /\ results[1].val = results[2].val
         /\ results[1].pos = results[2].pos
         /\ results[1].err = results[2].err
         /\ results[1].out = "success" => results[1].val = UNUSED
         /\ results[1].out = "failure" => results[1].pos = start0

\* omit[Seq(One, '+')] and omit[omit[Seq(One, '+')]] both matched "1+" and
\* both returned UNUSED with the stream after the "+".
C22_Witness ==
  /\ OmitTwiceCalled
  /\ job[1].p = SeqParser(<<One, Plus>>)
  /\ text = <<"1", "+">>
  /\ Len(results) = 2
  /\ results[1].out = "success" /\ results[2].out = "success"
  /\ results[2].val = UNUSED
  /\ results[2].pos = 2

\* What the call of the shared tree g on the text t returns, and where it
\* leaves the stream, when no other parse uses the tree.
Alone(g, t) ==
  LET success(v, p) == [out |-> "success", val |-> v, pos |-> p, err |-> NoErr]
      failure == [out |-> "failure", val |-> None, pos |-> 0, err |-> NoErr]
      one == Str(<<"1">>)
  IN  CASE g.k = "Alt" ->
             IF t = <<"1", "1", "+">> THEN success(Tuple(<<one, one>>), 3)
             ELSE IF t = <<"+", "+", "1">> THEN success(one, 3)
             ELSE failure
        [] g.k = "Seq" ->
             IF t = <<"1", "1", "+", "+", "1">>
             THEN success(Tuple(<<Tuple(<<one, one>>), one>>), 5)
             ELSE failure
        [] g.k = "Repeat" ->
             IF t = <<"1", "1", "1", "1">>
             THEN success(Tuple(<<Obj(2), Obj(2)>>), 4)
             ELSE IF t = <<"1", "1", "+">> THEN success(Tuple(<<Obj(2)>>), 2)
             ELSE success(Tuple(<<>>), 0)

\* C23: A tree shared by two parse calls, each with its own ParserState and
\* input.  Whether a call runs alone or its steps are interleaved in any
\* way with those of a second call of the same tree, it returns the same
\* success flag and value and leaves its stream at the same position; what
\* a parse stores on the tree, the attr_type of a node, is the value any
\* parse would compute for that node itself.
C23_SharedTree ==
  /\ (Len(job) = 1 /\ job[1] \in SharedTrees) =>
       /\ Len(results) = 1 => results[1] = Alone(job[1], text)
       /\ Len(other.results) = 1 => other.results[1] = Alone(job[1], other.text)
       /\ ~other.live => other = Single
  /\ \A e \in cache : e[2] = AttrTypeOf(e[1], rules, {})

\* The call on "11++1" has returned its nested tuple while the second call
\* of the same tree, on the same text, is suspended inside its parse with
\* transactions open, after the first one stored attr_type values on the tree.
C23_Witness ==
  /\ other.live
  /\ job = <<SeqParser(<<Pair, Signs, One>>)>>
  /\ text = <<"1", "1", "+", "+", "1">>
  /\ other.text = text
  /\ Len(results) = 1
  /\ results[1].val = Tuple(<<Tuple(<<Str(<<"1">>), Str(<<"1">>)>>), Str(<<"1">>)>>)
  /\ other.ctl # <<>> /\ other.tx # <<>>
  /\ other.pos > 0
  /\ Cached(cache, Pair) /\ Cached(cache, Signs)

\* ------------------------------------------------------------------------
\* C24
\* ------------------------------------------------------------------------

\* What the call c is stated to leave in the transaction that held t.
LeftAs(c, t, u) ==
  CASE c.op = "commit" -> u.success /\ u.commit /\ u.value = c.value
    [] c.op = "succeed" -> u.success /\ ~u.commit /\ u.value = c.value
    [] c.op = "rollback" -> ~u.success /\ ~u.commit /\ u.value = UNUSED
    [] c.op = "uncommit" -> u = [t EXCEPT !.commit = FALSE]
    [] c.op = "read" -> u = t

\* C24: from any prior state of the current transaction (fresh, succeeded,
\* committed, uncommitted), each of commit(value), succeed(value), rollback()
\* and uncommit() returns to its caller and leaves the transaction as
\* stated: commit successful, committed, holding value; succeed successful,
\* not committed, holding value; rollback not successful, not committed,
\* value UNUSED; uncommit with only the commit flag cleared.
C24_AsStated ==
  [][StateCall =>
       /\ err' = NoErr
       /\ Len(tx') = Len(tx)
       /\ LeftAs(F.node.calls[F.i + 1], Top, tx'[Len(tx')])]_vars

\* ------------------------------------------------------------------------
\* C25
\* ------------------------------------------------------------------------

\* The transactions a step closes, by their index on the stack.
Closed ==
  (Len(tx') + 1)..Len(tx)

\* Where closing the transactions of Closed innermost-first leaves a cursor
\* that was at p: at the start of the last uncommitted one to be closed.
LeftAt(p) ==
  IF \A k \in Closed : tx[k].commit THEN p
  ELSE LET k == CHOOSE k \in Closed :
                  ~tx[k].commit /\ \A j \in Closed : j < k => tx[j].commit
       IN  tx[k].pos

\* C25: during a parse the cursor only moves forward, by reading characters
\* of the input, except when a transaction is closed uncommitted: then it
\* moves to the start recorded by that transaction, the innermost open one,
\* which is the position at which it was opened.  The cursor is never before
\* the start of an open transaction, and the starts of the open transactions
\* are ordered as the transactions nest.
C25_CursorDiscipline ==
  /\ [](\A i \in 1..Len(tx) :
          /\ tx[i].pos <= pos
          /\ i > 1 => tx[i - 1].pos <= tx[i].pos)
  /\ [][ctl # <<>> =>
          /\ Len(tx') > Len(tx) => pos' = pos /\ tx'[Len(tx')].pos = pos
          /\ Len(tx') = Len(tx) => pos <= pos' /\ pos' <= Len(text)
          /\ Len(tx') < Len(tx) =>
               /\ pos' = LeftAt(pos)
               /\ Len(tx') = Len(tx) - 1 =>
                    pos' = IF Top.commit THEN pos ELSE Top.pos]_vars

\* A nested transaction was closed uncommitted: the cursor went back from
\* where the reads had taken it to that transaction's start, which is ahead
\* of the start of the transaction around it.
C25_Witness ==
  /\ ret.set /\ ~ret.ok
  /\ ret.end < ret.at
  /\ pos = ret.end
  /\ Len(tx) >= 2
  /\ Top.pos < pos
  /\ tx[1].pos < Top.pos

\* ------------------------------------------------------------------------
\* C26
\* ------------------------------------------------------------------------

\* C26: the calculator grammar, written with mutually recursive Rules as in
\* the example, parses "2 * (5 + 20)" with ' ' as skipper to success with
\* the value 50, and "2*3*4+10*20*30" without a skipper to success with the
\* value 6024.
C26_AsStated ==
  (job = <<calc>> /\ Len(results) = 1) =>
    /\ (text = <<"2", " ", "*", " ", "(", "5", " ", "+", " ", "2", "0", ")">> /\ skiparg # NoParser) =>
         results[1].out = "success" /\ results[1].val = Obj(50)
    /\ (text = 
               <<"2", "*", "3", "*", "4", "+", "1", "0", "*", "2", "0", "*", "3", "0">> /\ skiparg = NoParser) =>
         results[1].out = "success" /\ results[1].val = Obj(6024)

\* ------------------------------------------------------------------------
\* C27
\* ------------------------------------------------------------------------

\* The directives made with post_directive.
PostDirectives ==
  {"omit", "as_string", "predicate"}

\* What is seen of a post function having run on the transaction u.
PostFuncRan(func, u) ==
  /\ u.success
  /\ func \in {"omit", "predicate"} => u.value = UNUSED
  /\ func = "as_string" => u.value.t = "str"
  /\ func = "predicate" => ~u.commit

\* C27: after the wrapped child's parse a general directive (not_predicate,
\* object_lexeme) runs what follows its yield whether the child succeeded or
\* failed: not_predicate turns the outcome round in both cases and
\* object_lexeme puts the skipper back in both cases.  A directive made with
\* post_directive (omit, as_string, predicate) runs its post function only
\* when the child succeeded and leaves a failed transaction as it was.
C27_DirectivePost ==
  [][At("_parse", "Directive", "wait") =>
       LET func == F.node.func
           t == Top
           u == tx'[Len(tx')]
       IN  /\ Len(tx') = Len(tx)
           /\ func \in PostDirectives =>
                IF t.success THEN PostFuncRan(func, u) ELSE u = t
           /\ func = "not_predicate" =>
                IF t.success THEN ~u.success /\ ~u.commit
                ELSE u.success /\ ~u.commit /\ u.value = UNUSED
           /\ func = "object_lexeme" =>
                skipper' = F.sk /\ skipper = NoParser /\ u = t]_vars

\* not_predicate[omit[...]] returned success: omit's child had failed, so
\* omit left the failed transaction alone, and not_predicate's hook ran on
\* that failure.
C27_Witness ==
  /\ ReturnedDirective("not_predicate") /\ ret.ok
  /\ ret.node.p.k = "Directive" /\ ret.node.p.func = "omit"
  /\ ~ret.hist[1].ok
  /\ ret.val = UNUSED

\* ------------------------------------------------------------------------
\* C28, C29
\* ------------------------------------------------------------------------

\* C28: while an error raised during a parse (an unbound Rule, a semantic
\* action's function that raises) travels up, each step closes the innermost
\* open transactions and leaves the others as they are, every uncommitted one
\* putting the cursor back at its own start; when the error leaves the
\* top-level call no transaction of the parse is open any more: the current
\* transaction is the one from before the call.
C28_Cleanup ==
  /\ []((ctl = <<>>) => tx = <<>>)
  /\ [][(err # NoErr /\ ctl # <<>>) =>
          /\ err' = err
          /\ Len(tx') <= Len(tx)
          /\ tx' = SubSeq(tx, 1, Len(tx'))
          /\ pos' = LeftAt(pos)
          /\ ctl' = <<>> => tx' = <<>>]_vars

\* The function of the action after One raised: the transaction of the
\* action's parse was committed and closed as it was, the transaction of the
\* Seq around it was not and put the cursor back at 0; none is left open.
C28_Witness ==
  /\ job = <<SeqParser(<<One, SemanticAction(One, "fail", NoType)>>)>>
  /\ text = <<"1", "1">>
  /\ Len(results) = 1
  /\ results[1].out = "raise"
  /\ results[1].err = "ZeroDivisionError"
  /\ results[1].pos = 0
  /\ tx = <<>> /\ ctl = <<>>

\* C29: when an unbound Rule or a semantic action's function makes an error
\* escape a top-level parse call, the cursor is where it was before the call.
C29_AsStated ==
  \A i \in 1..Len(results) :
    (/\ results[i].out = "raise"
     /\ job[i].k # "Bind"
     /\ results[i].err \in {"AttributeError", "ZeroDivisionError"}) =>
      results[i].pos = start0

\* ------------------------------------------------------------------------
\* C30
\* ------------------------------------------------------------------------

\* C30: a programming error is raised before any input is read.  At the
\* moment parsing through an unbound Rule raises its error the parse has
\* read no character: the cursor is where the call found it and no
\* activation has consumed or skipped anything.  An error raised by the call
\* itself (a ParserState passed with a skipper, a skipper of a wrong type)
\* or by a binding (a typed Rule bound to an incompatible target) leaves the
\* cursor where it was.
C30_AsStated ==
  [][/\ (err = NoErr /\ err' = "AttributeError") =>
          /\ pos = start0 /\ pos' = pos
          /\ \A i \in 1..Len(ctl) : ctl[i].eaten = 0 /\ ctl[i].hist = <<>>
     /\ (/\ err = NoErr
         /\ Len(results') > Len(results)
         /\ results'[Len(results')].out = "raise") => pos' = pos]_vars

\* ------------------------------------------------------------------------
\* C31
\* ------------------------------------------------------------------------

\* The activations inside which the skipper is taken away: the skip loop of
\* a parse call and the wrapped child of an object_lexeme.
Suspends(f) ==
  \/ f.op = "parse" /\ f.pc \in {"skip", "skipret", "skipclose"}
  \/ /\ f.op = "_parse" /\ f.node.k = "Directive"
     /\ f.node.func = "object_lexeme" /\ f.pc = "wait"

Suspended ==
  \E i \in 1..Len(ctl) : Suspends(ctl[i])

\* The skip policy the caller configured: the skipper of the ParserState
\* passed in, or the skipper argument (a str standing for Char of it).
Policy ==
  IF given.k = "ParserState" THEN given.skipper
  ELSE IF skiparg.k = "pystr"
       THEN Char({skiparg.s[i] : i \in 1..Len(skiparg.s)})
       ELSE skiparg

\* C31: the skipper of a ParserState is None exactly while a skip loop or
\* the wrapped child of a lexeme is running, and otherwise it is the skipper
\* that was configured: after every parse call, nested or top-level, whether
\* it returned success or failure or an error went through it, the skipper
\* is what it was before the call.
C31_SkipperRestored ==
  /\ given.k = "ParserState" =>
       skipper = IF Suspended THEN NoParser ELSE Policy
  /\ ctl # <<>> =>
       skipper = IF Suspended THEN NoParser ELSE Policy
  /\ \A i \in 1..Len(ctl) :
       (ctl[i].op = "parse" /\ ctl[i].pc \in {"body", "ret"}) =>
         ctl[i].sk = IF \E j \in 1..(i - 1) : Suspends(ctl[j])
                     THEN NoParser ELSE Policy

\* An error raised inside lexeme[lexeme[...]] has left both lexemes, and the
\* skipper ' ' is in force again while the error travels on.
C31_Witness ==
  /\ err # NoErr /\ ctl # <<>>
  /\ skipper = Char({" "})
  /\ job = <<lexeme(lexeme(Rule("expr", "STRING")))>>
  /\ Len(ctl) = 1 /\ F.op = "parse" /\ F.pc = "ret"
  /\ F.sk = Char({" "})

\* ------------------------------------------------------------------------
\* C32
\* ------------------------------------------------------------------------

\* The two calls are -(r) and Repeat(0, 1)[r] for a repetition r with
\* minimum 1.
NegatedCalled ==
  /\ Len(job) = 2
  /\ job[2].k = "Repeat" /\ job[2].min = 0 /\ job[2].max = 1
  /\ job[2].p.k = "Repeat" /\ job[2].p.min = 1
  /\ job[1] = [job[2].p EXCEPT !.min = 0]

\* C32: the parser that negating a one-or-more repetition of C produces, one
\* Repeat over C with minimum 0 and the same maximum, returns the same
\* success flag, the same value and the same final position as a zero-or-one
\* Repeat written around the one-or-more repetition, on every input.
C32_AsStated ==
  (NegatedCalled /\ Len(results) = 2) =>
    /\ results[1].out = results[2].out
    /\ results[1].val = results[2].val
    /\ results[1].pos = results[2].pos

\* ------------------------------------------------------------------------
\* C33
\* ------------------------------------------------------------------------

\* C33: with a skipper in force (outside any lexeme and any skip loop),
\* skippable input before a match is consumed for every composition: when a
\* child of a Seq, a branch of an Alt or an iteration of a Repeat comes to
\* read its first character, that character is not a skippable one, so that
\* +Char('1') with the skipper ' ' matches both digits of "1 1".
C33_AsStated ==
  /\ (/\ Running /\ skipper # NoParser
      /\ F.op = "_parse" /\ F.pc = "start" /\ F.i = 0
      /\ F.node.k \in {"Char", "PredChar", "String"}
      /\ Read(pos, 1) # <<>>) =>
       ~Skippable(skipper, Read(pos, 1)[1])
  /\ (/\ job = <<Pos(One)>> /\ text = <<"1", " ", "1">>
      /\ skiparg # NoParser /\ given = NoState
      /\ Len(results) = 1) =>
       /\ results[1].val = Tuple(<<Str(<<"1">>), Str(<<"1">>)>>)
       /\ results[1].pos = 3

\* ------------------------------------------------------------------------
\* C34
\* ------------------------------------------------------------------------

\* The attempt that just came back to a loop succeeded without consuming.
Stalled ==
  Top.success /\ (Top.commit => pos = Top.pos)

\* An iteration of a Repeat without a maximum, or an attempt of the skip
\* loop, has just succeeded without consuming a character.
ZeroIter ==
  /\ Running
  /\ \/ /\ F.op = "_parse" /\ F.node.k = "Repeat" /\ F.pc = "wait"
        /\ F.node.max = NoMax
     \/ F.op = "parse" /\ F.pc = "skipclose"
  /\ Stalled

\* The call has returned or raised.
Finished ==
  results # <<>> \/ err # NoErr

\* C34: on a finite input a Repeat without a maximum, and the skip loop,
\* end whenever every successful match of the child consumes at least one
\* character; once the child has succeeded consuming nothing the loop never
\* ends: nothing in the engine stops it.
C34_Loops ==
  /\ ([]~ZeroIter) => <>Finished
  /\ [](ZeroIter => []~Finished)

\* A Repeat over a lookahead that matches is still iterating after MaxIter
\* iterations, none of which consumed anything.
C34_Witness ==
  /\ ZeroIter
  /\ F.node.k = "Repeat" /\ F.op = "_parse"
  /\ F.i >= MaxIter /\ F.eaten = 0
  /\ F.node.p = predicate(One)

\* ------------------------------------------------------------------------
\* C35
\* ------------------------------------------------------------------------

\* Every Rule of the grammar has been bound to a parser.
FullyBound ==
  \A name \in RuleNames : rules[name].k # "Unbound"

\* C35: in a fully bound grammar the evaluation of attr_type ends with an
\* attribute type on every node, also on Rules created without an expected
\* type whose targets lead back to them, and a bound Rule's attr_type is
\* that of its target.
C35_AsStated ==
  FullyBound =>
    /\ \A name \in RuleNames :
         LET rule == Eval(Rule(name, NoType), rules, {}, cache).t
             target == Eval(rules[name], rules, {}, cache).t
         IN  rule \in AttrType /\ rule = target
    /\ \A i \in 1..Len(job) :
         job[i].k # "Bind" => Eval(job[i], rules, {}, cache).t \in AttrType
    /\ err # "RecursionError"

\* ------------------------------------------------------------------------
\* C36
\* ------------------------------------------------------------------------

\* Grammars built from Char, String, lit, Symbols, Seq, Alt, Repeat and the
\* directives omit, as_string, lexeme, predicate and not_predicate.
RECURSIVE Plain(_)
Plain(n) ==
  CASE n.k \in {"Char", "String", "Symbols"} -> TRUE
    [] n.k \in {"Seq", "Alt"} -> \A i \in 1..Len(n.ps) : Plain(n.ps[i])
    [] n.k \in {"Repeat", "Directive"} -> Plain(n.p)
    [] OTHER -> FALSE

\* The shape an attr_type announces: a str for STRING, a tuple for TUPLE,
\* UNUSED for UNUSED, anything for OBJECT.
Shape(type, v) ==
  CASE type = "STRING" -> v.t = "str"
    [] type = "TUPLE" -> v.t = "tuple"
    [] type = "UNUSED" -> v = UNUSED
    [] OTHER -> TRUE

\* A parse call of a plain grammar has just returned success.
PlainSuccess ==
  ret.set /\ ret.ok /\ Plain(ret.node)

\* C36 as stated: whenever the parse of such a grammar succeeds, the value
\* has the shape of the node's attr_type: a str for STRING, a tuple for
\* TUPLE, UNUSED for UNUSED.
C36_AsStated ==
  PlainSuccess => Shape(AttrTypeOf(ret.node, rules, {}), ret.val)

\* C36 as amended: whenever the parse of such a grammar succeeds, the value
\* is UNUSED or is compatible with the node's attr_type as
\* AttrType.compatible has it: a str for STRING, a tuple for TUPLE, any
\* value for OBJECT and for UNUSED.
C36_ValueShape ==
  PlainSuccess =>
    \/ ret.val = UNUSED
    \/ compatible(AttrTypeOf(ret.node, rules, {}), ret.val)

\* -Char('1') has attr_type STRING and has returned UNUSED, having matched
\* nothing.
C36_Witness ==
  /\ PlainSuccess
  /\ ret.node = Repeat(One, 0, 1)
  /\ AttrTypeOf(ret.node, rules, {}) = "STRING"
  /\ ret.val = UNUSED

\* ------------------------------------------------------------------------
\* C37
\* ------------------------------------------------------------------------

\* A child that succeeds without committing: predicate, not_predicate, eoi
\* and eps.
Lookahead(n) ==
  \/ n.k \in {"Eoi", "Eps"}
  \/ n.k = "Directive" /\ n.func \in {"predicate", "not_predicate"}

\* The function of a SemanticAction is applied and returns.
FuncReturns ==
  /\ At("_parse", "Action", "wait")
  /\ Top.success
  /\ err' = NoErr

\* Of the transactions only the value of the current one differs.
OnlyValueSet ==
  /\ Len(tx') = Len(tx)
  /\ \A i \in 1..(Len(tx) - 1) : tx'[i] = tx[i]
  /\ tx'[Len(tx)].commit = Top.commit
  /\ tx'[Len(tx)].success = Top.success
  /\ tx'[Len(tx)].pos = Top.pos
  /\ pos' = pos
  /\ skipper' = skipper

\* C37: a SemanticAction changes only the value of the current transaction
\* and keeps its committed flag, so that attached to a child that succeeds
\* without committing (predicate, not_predicate, eoi, eps) its parse succeeds
\* with the function's result and consumes no input.
C37_ActionKeepsCommit ==
  /\ [][FuncReturns => OnlyValueSet]_vars
  /\ [](ret.set /\ ret.node.k = "Action" /\ Lookahead(ret.node.p) =>
          /\ ret.ok = (ret.val # None)
          /\ ret.ok => /\ ret.val = Apply(ret.node.func, <<>>)
                       /\ ret.end = ret.start)

\* predicate[Char('1')][count] has returned 0 under the skipper ' ' on an
\* input starting with a space, with the cursor back where it started.
C37_Witness ==
  /\ ret.set /\ ret.ok
  /\ ret.node = SemanticAction(predicate(One), "count", NoType)
  /\ ret.val = Obj(0)
  /\ ret.at > ret.start /\ ret.end = ret.start
  /\ skiparg # NoParser

\* ------------------------------------------------------------------------
\* C38
\* ------------------------------------------------------------------------

\* C38: in every reachable state every open transaction that is committed
\* is successful, and every one that is not successful holds UNUSED as its
\* value, whatever commits, succeeds, value assignments, uncommits and
\* rollbacks the combinators and directives have performed.
C38_TxInvariant ==
  \A i \in 1..Len(tx) :
    /\ tx[i].commit => tx[i].success
    /\ ~tx[i].success => tx[i].value = UNUSED

\* not_predicate[Char('1')] has rolled back the transaction its child had
\* committed: the character was read, and the transaction is neither
\* committed nor successful and holds UNUSED again.
C38_Witness ==
  /\ Running
  /\ F.op = "parse" /\ F.pc = "ret" /\ F.node = not_predicate(One)
  /\ skipper = NoParser /\ F.sk = NoParser
  /\ pos = Top.pos + 1 /\ text[pos] = "1"
  /\ ~Top.commit /\ ~Top.success /\ Top.value = UNUSED

====
